---- MODULE Spec2Model ----
(***************************************************************************)
(* Multi-modal control system: the event bus (event_bus.py), the action    *)
(* dispatcher (action_mapper.py) and the integrated controller             *)
(* (integrator.py), with the configuration tables of config.py.            *)
(*                                                                         *)
(* Time is counted in milliseconds; the clock advances in steps of         *)
(* ExecSleepMs, the shortest duration that occurs in the code.             *)
(***************************************************************************)
EXTENDS Integers, Sequences, FiniteSets, TLC

(***************************************************************************)
(* Bounds of the model                                                     *)
(***************************************************************************)
\* value of time.time() when the system starts (the code compares it with
\* the initial timestamps 0, which are therefore "long ago")
StartTime == 1000
\* number of clock steps explored by Spec
MaxTicks == 1
\* number of emit_event calls explored by Spec
MaxEmit == 2
\* number of register_listener calls explored by Spec
MaxListeners == 1
\* number of emit_event calls explored by SpecFull
FullEmits == 102
\* number of execute_action calls and of clock steps explored by SpecMapper
MaxCalls == 3
MapperTicks == 6
\* number of successful executions explored by SpecHistory
HistoryRuns == 150
\* last instant, in ms after the start, explored by SpecScenario
ScenarioEnd == 1000
\* time between two camera frames, in ms, and number of frames explored by
\* SpecGaze and by SpecBlink
FramePeriodMs == 100
MaxGazeFrames == 28
MaxBlinkFrames == 16
\* number of register_listener and of emit_event calls explored by SpecFaults
MaxFaultListeners == 2
MaxFaultEmits == 3
\* SpecLock: number of emit_event and of register_listener calls, and depth
\* of the nesting of calls into the bus that callbacks make
MaxLockEmits == 1
MaxLockListeners == 1
MaxDepth == 4
MaxHudToggles == 1
MaxLockToggles == 1
MaxStopEmits == 2
MaxStopTicks == 2
MaxGlobalEmits == 3
MaxRaceCalls == 2
MaxRaceTicks == 4
MaxPauseEmits == 2
MaxPauseListeners == 2
MaxHudKeys == 1
MaxPolicyEmits == 3
MaxPolicyTicks == 2
\* number of frames and of key presses explored by SpecGesture
MaxGestureFrames == 5
MaxGestureKeys == 1
\* number of frames explored by SpecAbsence
MaxAbsenceFrames == 6
\* number of grid steps across the frame explored by SpecDetect
GazeGrid == 10
\* number of frames explored by SpecGazeBoth
MaxBothFrames == 26
\* number of emit_event and of get_status calls explored by SpecStatus
MaxStatusEmits == 2
MaxStatusCalls == 2
\* largest limit and number of executed actions explored by SpecQuery
MaxQueryLimit == 4
MaxQueryRuns == 4
MaxPriorityEmits == 2

(***************************************************************************)
(* Program constants                                                       *)
(***************************************************************************)
\* EventBus.__init__(max_queue_size=100)
max_queue_size == 100
\* _should_process_event: time_since_voice < 0.5
VoiceDominanceMs == 500
\* _check_cooldown: elapsed >= 0.2
CooldownMs == 200
\* _execute_hotkey / _execute_press: time.sleep(0.05)
ExecSleepMs == 50
\* _record_action: len(self.action_history) > 100
HistoryLimit == 100
\* EYE_CONFIG["gaze_hold_time"], EYE_CONFIG["gaze_cooldown"]
\* GESTURE_CONFIG: gesture_frames_required, action_cooldown, pause_cooldown
GestureFramesRequired == 2
ActionCooldownMs == 300
PauseCooldownMs == 800
\* EYE_CONFIG["gaze_thresholds"], in hundredths
GazeLeftPct == 40
GazeRightPct == 60
GazeHoldMs == 800
GazeCooldownMs == 1200
\* EYE_CONFIG["double_blink_window"], EYE_CONFIG["triple_blink_window"]
DoubleBlinkMs == 500
TripleBlinkMs == 700
\* detect_blink: (t - self.blink_time) > 1.0
BlinkResetMs == 1000

None == "None"
\* None, where the code holds a time or None
NoTime == -1
PollMs == 100
JoinTimeoutMs == 2000

(***************************************************************************)
(* config.py                                                               *)
(***************************************************************************)
\* keys of ACTION_MAPPINGS (every entry is a "hotkey" or a "press")
ACTION_MAPPINGS ==
    {"next_tab", "previous_tab", "close_tab", "new_tab", "close_window",
     "minimize", "maximize", "show_desktop", "copy", "paste", "cut",
     "select_all", "undo", "redo", "play_pause", "volume_up", "volume_down",
     "mute", "screenshot", "escape", "enter", "backspace"}

EYE_ACTIONS ==
    [left_gaze |-> "previous_tab", right_gaze |-> "next_tab",
     double_blink |-> "next_tab", triple_blink |-> "show_desktop"]

GESTURE_ACTIONS ==
    [pinch |-> "copy", peace |-> "paste", scroll_up |-> "next_tab",
     scroll_down |-> "previous_tab", ok |-> "enter", fist |-> "escape",
     thumbs_up |-> "play_pause", thumbs_down |-> "volume_down",
     open_palm |-> "show_desktop", pinky_up |-> "pause_toggle"]

VOICE_ACTIONS ==
    [next_tab |-> "next_tab", previous_tab |-> "previous_tab",
     close_tab |-> "close_tab", new_tab |-> "new_tab", copy |-> "copy",
     paste |-> "paste", undo |-> "undo", redo |-> "redo",
     play |-> "play_pause", pause |-> "play_pause", mute |-> "mute",
     volume_up |-> "volume_up", volume_down |-> "volume_down",
     screenshot |-> "screenshot"]

\* SYSTEM_CONFIG["allow_simultaneous"]["eye_gesture"]
ALLOW_EYE_GESTURE == TRUE

\* dict.get(key): the value, or None
Get(d, key) == IF key \in DOMAIN d THEN d[key] ELSE None

(***************************************************************************)
(* Events, as the modality modules build them                              *)
(***************************************************************************)
EventTypes ==
    {"eye_gaze_left", "eye_gaze_right", "eye_double_blink", "eye_triple_blink",
     "gesture_detected", "gesture_pause", "voice_command", "system_pause",
     "system_resume"}

\* the events the producers emit: event_type, source, data (the "action" and
\* "details" keys, None when the key is absent) and priority
Kinds ==
    [voice_copy |->
        [event_type |-> "voice_command", source |-> "voice",
         action |-> "copy", details |-> "copy", priority |-> 3],
     gesture_pinch |->
        [event_type |-> "gesture_detected", source |-> "gesture",
         action |-> "copy", details |-> "pinch", priority |-> 2],
     gesture_peace |->
        [event_type |-> "gesture_detected", source |-> "gesture",
         action |-> "paste", details |-> "peace", priority |-> 2],
     gesture_pause |->
        [event_type |-> "gesture_pause", source |-> "gesture",
         action |-> None, details |-> None, priority |-> 3],
     pause_with_action |->
        [event_type |-> "gesture_pause", source |-> "gesture",
         action |-> "copy", details |-> "pinky_up", priority |-> 3],
     gesture_pinky_up |->
        [event_type |-> "gesture_detected", source |-> "gesture",
         action |-> "pause_toggle", details |-> "pinky_up", priority |-> 2],
     eye_left_gaze |->
        [event_type |-> "eye_gaze_left", source |-> "eye",
         action |-> "previous_tab", details |-> "left_gaze", priority |-> 2],
     eye_right_left_gaze |->
        [event_type |-> "eye_gaze_right", source |-> "eye",
         action |-> "previous_tab", details |-> "left_gaze", priority |-> 2],
     eye_left_right_gaze |->
        [event_type |-> "eye_gaze_left", source |-> "eye",
         action |-> "next_tab", details |-> "right_gaze", priority |-> 2],
     eye_right_gaze |->
        [event_type |-> "eye_gaze_right", source |-> "eye",
         action |-> "next_tab", details |-> "right_gaze", priority |-> 2],
     eye_double_blink |->
        [event_type |-> "eye_double_blink", source |-> "eye",
         action |-> "next_tab", details |-> None, priority |-> 1],
     eye_triple_blink |->
        [event_type |-> "eye_triple_blink", source |-> "eye",
         action |-> "show_desktop", details |-> None, priority |-> 1],
     test_event |->
        [event_type |-> "gesture_detected", source |-> "test",
         action |-> None, details |-> None, priority |-> 0],
     test_copy |->
        [event_type |-> "gesture_detected", source |-> "test",
         action |-> "copy", details |-> None, priority |-> 0]]

\* Event(event_type, source, data, timestamp=time.time(), priority); id is
\* the ordinal of the emit_event call, kept to tell the events apart
Event(kind, t, id) ==
    [id |-> id, event_type |-> Kinds[kind].event_type,
     source |-> Kinds[kind].source, action |-> Kinds[kind].action,
     details |-> Kinds[kind].details, timestamp |-> t,
     priority |-> Kinds[kind].priority]

VARIABLES
    now,                    \* time.time()
    queue,                  \* EventBus.event_queue
    pending,                \* per producer thread: <<e>> once it has put e and not yet recorded it
    system_paused,          \* EventBus.system_paused
    last_event_time,        \* EventBus.last_event_time
    active_sources,         \* EventBus.active_sources
    listeners,              \* EventBus.listeners
    action_callbacks,       \* EventBus.action_callbacks (names bound to the unified executor)
    running,                \* EventBus.running
    bus_last_action_time,   \* EventBus.last_action_time
    last_action_time,       \* ActionMapper.last_action_time
    action_history,         \* ActionMapper.action_history
    handlers,               \* ActionMapper.action_callbacks (names of custom handlers)
    stats,                  \* MultiModalController.stats
    emitted,                \* history: result of every emit_event call, by id
    handled,                \* history: what the consumer loop did with each event
    calls,                  \* history: every execute_action call and its result
    script,                 \* the emissions a scripted scenario performs, in order
    last_left_gaze,         \* IrisTracker.last_left_gaze
    last_right_gaze,        \* IrisTracker.last_right_gaze
    left_gaze_start,        \* IrisTracker.left_gaze_start
    right_gaze_start,       \* IrisTracker.right_gaze_start
    eye_last_action_time,   \* IrisTracker.last_action_time
    blink_count,            \* IrisTracker.blink_count
    blink_time,             \* IrisTracker.blink_time
    eyes_closed,            \* IrisTracker.eyes_closed
    last_blink_time,        \* IrisTracker.last_blink_time
    left_since,             \* history: first frame of the present run of equal left-eye classifications
    closings,               \* history: the instants of the open-to-closed transitions
    last_eye_frame,         \* history: what the last frame of the eye tracker showed ("none" before the first)
    right_since,            \* history: first frame of the present run of equal non-CENTER right-eye classifications, NoTime at the centre
    last_no_face,           \* history: the time of the last frame without a face, NoTime if none
    processor_alive,        \* EventBus.processor_thread is running its loop
    lock,                   \* EventBus.lock: the thread that holds it, or None
    stack,                  \* per thread: its calls into the bus in progress, innermost last
    hud_toggles,            \* the number of times the key P was pressed in the HUD
    consumer_pc,            \* _process_events: "poll" (in get), "handle" (in _handle_event), "exited"
    poll_start,             \* the time at which the present get(timeout=0.1) began
    shutdown_pc,            \* shutdown: "idle" (not called), "joining", "returned"
    stop_at,                \* history: the time at which shutdown set running to False
    stop_pc,                \* history: consumer_pc at that time
    stop_gets,              \* history: the events that get returned since then
    returned_at,            \* history: the time at which shutdown returned
    left_ids,               \* history: the ids of the events in the queue when shutdown returned
    global_event_bus,       \* event_bus._event_bus: the number of an instance, or NoBus
    buses,                  \* the number of EventBus instances constructed, each with its processor thread
    caller_pc,              \* per producer thread: its position in get_event_bus / emit_event
    caller_bus,             \* per producer thread: the instance it constructed or was given
    bus_events,             \* per instance: the number of events in its queue
    bus_handling,           \* per instance: its processor thread is in _handle_event
    returned_buses,         \* history: the instances that get_event_bus returned
    global_calls,           \* history: the number of calls of the module function emit_event
    mapper_pc,              \* per thread: its position in ActionMapper.execute_action
    mapper_req,             \* per thread: the arguments of its call and the time it began
    race_done,              \* history: the calls of execute_action that returned
    debug_mode,             \* SYSTEM_CONFIG["debug_mode"]
    hud_keys,               \* history: the number of keys the HUD loop has read
    allow_eye_gesture,      \* SYSTEM_CONFIG["allow_simultaneous"]["eye_gesture"]
    prev_gesture,           \* HandGestureController.prev_gesture
    stable_count,           \* HandGestureController.stable_count
    gesture_last_action_time, \* HandGestureController.last_action_time
    gesture_paused,         \* HandGestureController.system_paused
    last_pause_toggle_time, \* HandGestureController.last_pause_toggle_time
    gesture_log,            \* history: one record for each frame process_frame has seen
    gesture_keys,           \* history: the number of keys the gesture loop has read
    gaze_args,              \* the arguments of the detect_gaze call under test
    gaze_result,            \* what that call returned, None until it has
    status_pc,              \* the HUD thread's position in get_status
    snapshot,               \* the dict get_status builds and returns
    status_calls,           \* history: the number of get_status calls
    rec_pc,                 \* per producer thread: its position in the locked block of emit_event
    query_limit,            \* the limit of the get_action_history call under test
    query_result,           \* <<the history at that call and what the call returned>>, empty before it
    pause_notices           \* history: the calls of _notify_listeners by _toggle_system_pause, in order

busVars == <<queue, pending, system_paused, last_event_time, active_sources,
             listeners, action_callbacks, running, bus_last_action_time>>
mapperVars == <<last_action_time, action_history, handlers>>
eyeVars == <<last_left_gaze, last_right_gaze, left_gaze_start, right_gaze_start,
             eye_last_action_time, blink_count, blink_time, eyes_closed,
             last_blink_time, left_since, closings, last_eye_frame,
             right_since, last_no_face>>
lockVars == <<lock, stack, hud_toggles>>
stopVars == <<consumer_pc, poll_start, shutdown_pc, stop_at, stop_pc, stop_gets,
              returned_at, left_ids>>
globalVars == <<global_event_bus, buses, caller_pc, caller_bus, bus_events,
                bus_handling, returned_buses, global_calls>>
raceVars == <<mapper_pc, mapper_req, race_done>>
hudVars == <<debug_mode, hud_keys>>
configVars == <<allow_eye_gesture>>
gestureVars == <<prev_gesture, stable_count, gesture_last_action_time,
                 gesture_paused, last_pause_toggle_time, gesture_log,
                 gesture_keys>>
gazeFnVars == <<gaze_args, gaze_result>>
statusVars == <<status_pc, snapshot, status_calls, rec_pc>>
queryVars == <<query_limit, query_result>>
toggleVars == <<pause_notices>>
tailVars == <<configVars, gestureVars, gazeFnVars, statusVars, queryVars,
              toggleVars>>
laterVars == <<raceVars, hudVars, tailVars>>
restVars == <<lockVars, stopVars, globalVars, laterVars>>
auxVars == <<eyeVars, processor_alive, restVars>>
vars == <<now, busVars, mapperVars, stats, emitted, handled, calls, script, auxVars>>

(***************************************************************************)
(* action_mapper.py: ActionMapper                                          *)
(***************************************************************************)
\* _check_cooldown at time t
CheckCooldown(t, last) == t - last >= CooldownMs

\* variant of RecordAction: over the limit, the newest record is dropped
RecordActionDropNewest(history, rec) ==
    LET h == Append(history, rec)
    IN  IF Len(h) > HistoryLimit THEN SubSeq(h, 1, Len(h) - 1) ELSE h

\* _record_action: append, then drop the oldest record when over the limit
RecordAction(history, rec) ==
    LET h == Append(history, rec)
    IN  IF Len(h) > HistoryLimit THEN Tail(h) ELSE h

\* get_action_history(limit): self.action_history[-limit:]
GetActionHistory(history, limit) ==
    IF limit = 0 \/ limit >= Len(history) THEN history
    ELSE SubSeq(history, Len(history) - limit + 1, Len(history))

ActionRecord(name, source, t, details) ==
    [action |-> name, source |-> source, time |-> t, details |-> details]

\* variant of ExecuteAction: a failed attempt with an unknown name starts
\* the cooldown
ExecuteActionUnknownCools(name, source, details, t, last, history, custom, customRaises, injRaises) ==
    LET blocked == [ok |-> FALSE, last |-> last, history |-> history, t |-> t,
                    raised |-> FALSE]
    IN  IF ~CheckCooldown(t, last) THEN blocked
        ELSE IF name \in custom THEN
            IF customRaises THEN [blocked EXCEPT !.raised = TRUE]
            ELSE [ok |-> TRUE, last |-> last,
                  history |-> RecordAction(history, ActionRecord(name, source, t, details)),
                  t |-> t, raised |-> FALSE]
        ELSE IF name \notin ACTION_MAPPINGS THEN [blocked EXCEPT !.last = t]
        ELSE LET t2 == IF injRaises THEN t ELSE t + ExecSleepMs
             IN  [ok |-> TRUE, last |-> t2,
                  history |-> RecordAction(history, ActionRecord(name, source, t2, details)),
                  t |-> t2, raised |-> injRaises]

\* execute_action(name, source, details) called at time t on the mapper state
\* (last, history, custom).  customRaises: the registered custom handler
\* raises; injRaises: the pyautogui call raises (the executor swallows it and
\* skips its sleep).  Result: the return value, the new mapper state, the
\* time at which the call returns, and whether the handler or the pyautogui
\* call was reached and raised.
ExecuteAction(name, source, details, t, last, history, custom, customRaises, injRaises) ==
    LET blocked == [ok |-> FALSE, last |-> last, history |-> history, t |-> t,
                    raised |-> FALSE]
    IN  IF ~CheckCooldown(t, last) THEN blocked
        ELSE IF name \in custom THEN
            IF customRaises THEN [blocked EXCEPT !.raised = TRUE]
            ELSE [ok |-> TRUE, last |-> last,
                  history |-> RecordAction(history, ActionRecord(name, source, t, details)),
                  t |-> t, raised |-> FALSE]
        ELSE IF name \notin ACTION_MAPPINGS THEN blocked
        ELSE LET t2 == IF injRaises THEN t ELSE t + ExecSleepMs
             IN  [ok |-> TRUE, last |-> t2,
                  history |-> RecordAction(history, ActionRecord(name, source, t2, details)),
                  t |-> t2, raised |-> injRaises]

\* history: what a call of execute_action at time t was given, found and did
CallRecord(name, source, details, t, last, history, custom, r) ==
    [name |-> name, source |-> source, details |-> details, at |-> t,
     ok |-> r.ok, returned |-> r.t, raised |-> r.raised,
     custom |-> name \in custom, last_before |-> last, last_after |-> r.last,
     recorded |-> r.history # history]

(***************************************************************************)
(* action_mapper.py: ActionTranslator                                      *)
(***************************************************************************)
\* f"{gaze_direction.lower()}_gaze"
GazeKey(direction) ==
    CASE direction \in {"left", "LEFT"} -> "left_gaze"
      [] direction \in {"right", "RIGHT"} -> "right_gaze"
      [] OTHER -> "other_gaze"

from_gaze(direction) == Get(EYE_ACTIONS, GazeKey(direction))
from_blink(blink_type) == Get(EYE_ACTIONS, blink_type)
from_gesture(gesture_name) == Get(GESTURE_ACTIONS, gesture_name)
from_voice(voice_command) == Get(VOICE_ACTIONS, voice_command)

(***************************************************************************)
(* integrator.py: MultiModalController._execute_unified_action             *)
(***************************************************************************)
\* event.data.get("details", "")
DetailsOf(e) == IF e.details = None THEN "" ELSE e.details

\* the unified action name the controller maps the event to (None: no action)
UnifiedAction(action_name, e) ==
    LET d == DetailsOf(e)
    IN  CASE e.source = "eye" ->
                IF from_gaze(d) # None THEN from_gaze(d) ELSE from_blink(d)
          [] e.source = "gesture" -> from_gesture(d)
          [] e.source = "voice" -> from_voice(d)
          [] OTHER -> action_name

StatSources == {"eye", "gesture", "voice"}

(***************************************************************************)
(* event_bus.py: EventBus                                                  *)
(***************************************************************************)
Sources == {"eye", "gesture", "voice", "test"}

\* variant of ShouldProcessEvent: the eye/gesture policy is not consulted
ShouldProcessEventNoPolicy(e, t, let, active) ==
    IF e.source = "voice" THEN TRUE
    ELSE IF t - Get(let, "voice") < VoiceDominanceMs /\ e.source # "voice" THEN FALSE
    ELSE TRUE

\* variant of ShouldProcessEvent: the window is measured from voice emission
\* to the emission of the event, not to the moment it is handled
ShouldProcessEventByTimestamp(e, t, let, active) ==
    IF e.source = "voice" THEN TRUE
    ELSE IF e.timestamp - Get(let, "voice") < VoiceDominanceMs /\ e.source # "voice"
         THEN FALSE
    ELSE IF e.source = "eye" /\ "gesture" \in active /\ ~allow_eye_gesture THEN FALSE
    ELSE TRUE

\* _should_process_event at time t
ShouldProcessEvent(e, t, let, active) ==
    IF e.source = "voice" THEN TRUE
    ELSE IF t - Get(let, "voice") < VoiceDominanceMs /\ e.source # "voice" THEN FALSE
    ELSE IF e.source = "eye" /\ "gesture" \in active /\ ~allow_eye_gesture THEN FALSE
    ELSE TRUE

\* the elements of a sequence
Range(seq) == {seq[i] : i \in 1..Len(seq)}

\* variant of NotifyListeners: the loop over the callbacks has no try/except,
\* the first listener that raises ends it
NotifyListenersStopAtRaise(event_type, raising) ==
    LET cbs == IF event_type = None THEN <<>> ELSE listeners[event_type]
        bad == {i \in 1..Len(cbs) : cbs[i] \in raising}
    IN  IF bad = {} THEN cbs
        ELSE SubSeq(cbs, 1, CHOOSE i \in bad : \A j \in bad : i <= j)

\* _notify_listeners: the callbacks called, in order; raising are the
\* listeners that raise when called (each call is in its own try/except)
NotifyListeners(event_type, raising) ==
    IF event_type = None THEN <<>> ELSE listeners[event_type]

\* variant of ProcessorSurvives: no except clause on the way, the exception
\* ends the thread
ProcessorSurvivesNoCatch(listenerRaised, callbackRaised) ==
    ~(listenerRaised \/ callbackRaised)

\* whether the processor thread goes on with its loop after an event during
\* which a listener or the action callback raised: _notify_listeners and
\* _execute_action catch and print, and so does _process_events
ProcessorSurvives(listenerRaised, callbackRaised) == TRUE

\* variant of Outcome: the pause-toggle event is dispatched like any other
OutcomeFallThrough(e, t) ==
    IF system_paused /\ e.source # "voice" THEN "system_paused"
    ELSE IF ~ShouldProcessEvent(e, t, last_event_time, active_sources)
         THEN "conflict_resolution"
    ELSE "processed"

\* variant of Outcome: the pause gate forgets the exemption of voice events
OutcomeGateAll(e, t) ==
    IF system_paused THEN "system_paused"
    ELSE IF e.event_type = "gesture_pause" THEN "toggled"
    ELSE IF ~ShouldProcessEvent(e, t, last_event_time, active_sources)
         THEN "conflict_resolution"
    ELSE "processed"

\* variant of Outcome: conflict resolution lets the events of the highest
\* priority through
OutcomeByPriority(e, t) ==
    IF system_paused /\ e.source # "voice" THEN "system_paused"
    ELSE IF e.event_type = "gesture_pause" THEN "toggled"
    ELSE IF ~ShouldProcessEvent(e, t, last_event_time, active_sources)
            /\ e.priority < Kinds["voice_copy"].priority
         THEN "conflict_resolution"
    ELSE "processed"

\* _handle_event: which branch the event takes
Outcome(e, t) ==
    IF system_paused /\ e.source # "voice" THEN "system_paused"
    ELSE IF e.event_type = "gesture_pause" THEN "toggled"
    ELSE IF ~ShouldProcessEvent(e, t, last_event_time, active_sources)
         THEN "conflict_resolution"
    ELSE "processed"

\* _execute_action: self.action_callbacks.get(action_name)
Callback(action_name) ==
    IF action_name \in action_callbacks THEN "unified" ELSE None

(***************************************************************************)
(* Initial state: EventBus(), ActionMapper() and MultiModalController()    *)
(* constructed; the controller has registered its unified executor under   *)
(* the name "*".                                                           *)
(***************************************************************************)
Producers == Sources

\* the threads that run callbacks: the processor thread of the bus, and the
\* HUD thread of the controller, which calls _toggle_system_pause itself
Threads == {"processor", "hud"}

\* IrisTracker.__init__, constructed when the system starts
EyeInit ==
    /\ last_left_gaze = "CENTER"
    /\ last_right_gaze = "CENTER"
    /\ left_gaze_start = NoTime
    /\ right_gaze_start = NoTime
    /\ eye_last_action_time = StartTime
    /\ blink_count = 0
    /\ blink_time = NoTime
    /\ eyes_closed = FALSE
    /\ last_blink_time = StartTime
    /\ left_since = StartTime
    /\ closings = <<>>
    /\ last_eye_frame = "none"
    /\ right_since = NoTime
    /\ last_no_face = NoTime

\* _event_bus = None
NoBus == 0

\* the producer threads, one for each modality
Callers == {"eye", "gesture", "voice"}

\* the instances that can exist: at most one for each call of get_event_bus
Instances == 1..MaxGlobalEmits

\* the module-level state of event_bus after n calls of EventBus()
GlobalInit(n) ==
    /\ global_event_bus = n
    /\ buses = n
    /\ caller_pc = [t \in Callers |-> "done"]
    /\ caller_bus = [t \in Callers |-> NoBus]
    /\ bus_events = [i \in Instances |-> 0]
    /\ bus_handling = [i \in Instances |-> FALSE]
    /\ returned_buses = {}
    /\ global_calls = 0

\* the threads that call execute_action on the shared mapper
MapperThreads == {"processor", "main"}

\* no call of execute_action is under way
RaceInit ==
    /\ mapper_pc = [t \in MapperThreads |-> "idle"]
    /\ mapper_req = [t \in MapperThreads |-> <<>>]
    /\ race_done = <<>>

\* no detect_gaze call is under test
GazeFnIdle ==
    /\ gaze_args = None
    /\ gaze_result = None

\* no get_action_history call is under test
QueryIdle ==
    /\ query_limit = None
    /\ query_result = <<>>

\* no get_status call has been made, no producer is in emit_event
StatusInit ==
    /\ status_pc = "idle"
    /\ snapshot = None
    /\ status_calls = 0
    /\ rec_pc = [p \in Producers |-> "idle"]

\* HandGestureController.__init__
GestureInit ==
    /\ prev_gesture = None
    /\ stable_count = 0
    /\ gesture_last_action_time = 0
    /\ gesture_paused = FALSE
    /\ last_pause_toggle_time = 0
    /\ gesture_log = <<>>
    /\ gesture_keys = 0

BusInit ==
    /\ RaceInit
    /\ GestureInit
    /\ StatusInit
    /\ debug_mode = FALSE
    /\ hud_keys = 0
    /\ now = StartTime
    /\ queue = <<>>
    /\ pending = [p \in Producers |-> <<>>]
    /\ system_paused = FALSE
    /\ last_event_time = [s \in {"eye", "gesture", "voice"} |-> 0]
    /\ active_sources = {}
    /\ listeners = [t \in EventTypes |-> <<>>]
    /\ action_callbacks = {"*"}
    /\ running = TRUE
    /\ bus_last_action_time = 0
    /\ last_action_time = 0
    /\ action_history = <<>>
    /\ stats = [eye |-> 0, gesture |-> 0, voice |-> 0, total |-> 0]
    /\ emitted = <<>>
    /\ handled = <<>>
    /\ calls = <<>>
    /\ EyeInit
    /\ processor_alive = TRUE
    /\ lock = None
    /\ stack = [t \in Threads |-> <<>>]
    /\ hud_toggles = 0
    /\ pause_notices = <<>>
    /\ consumer_pc = "poll"
    /\ poll_start = StartTime
    /\ shutdown_pc = "idle"
    /\ stop_at = NoTime
    /\ stop_pc = None
    /\ stop_gets = 0
    /\ returned_at = NoTime
    /\ left_ids = {}

\* UnifiedIntegrator.__init__ has called get_event_bus on the main thread;
\* SYSTEM_CONFIG is as config.py defines it
BaseInit ==
    /\ BusInit
    /\ GlobalInit(1)
    /\ allow_eye_gesture = ALLOW_EYE_GESTURE
    /\ GazeFnIdle
    /\ QueryIdle

Init ==
    /\ BaseInit
    /\ handlers = {}
    /\ script = <<>>

(***************************************************************************)
(* The clock                                                               *)
(***************************************************************************)
Tick ==
    /\ now' = now + ExecSleepMs
    /\ UNCHANGED <<busVars, mapperVars, stats, emitted, handled, calls, script, auxVars>>

(***************************************************************************)
(* EventBus.register_listener / register_action_callback                   *)
(***************************************************************************)
NumListeners == Len(listeners["voice_command"]) + Len(listeners["gesture_detected"])
                + Len(listeners["gesture_pause"]) + Len(listeners["system_pause"])
                + Len(listeners["system_resume"]) + Len(listeners["eye_gaze_left"])
                + Len(listeners["eye_double_blink"])

\* the callback registered is named by the order of registration
RegisterListener(event_type) ==
    /\ listeners' = [listeners EXCEPT
                        ![event_type] = Append(@, NumListeners + 1)]
    /\ UNCHANGED <<now, queue, pending, system_paused, last_event_time,
                   active_sources, action_callbacks, running,
                   bus_last_action_time, mapperVars, stats, emitted, handled, calls, script, auxVars>>

RegisterActionCallback(action_name) ==
    /\ action_callbacks' = action_callbacks \cup {action_name}
    /\ UNCHANGED <<now, queue, pending, system_paused, last_event_time,
                   active_sources, listeners, running,
                   bus_last_action_time, mapperVars, stats, emitted, handled, calls, script, auxVars>>

(***************************************************************************)
(* EventBus.emit_event, in its two steps: the non-blocking put, then the   *)
(* bookkeeping under the lock                                              *)
(***************************************************************************)
\* variant of QueueFull: the capacity test is off by one
QueueFullOffByOne(q) == Len(q) > max_queue_size

\* queue.Queue(maxsize).put(block=False) raises queue.Full
QueueFull(q) == Len(q) >= max_queue_size

\* self.event_queue.put(event, block=False); queue.Full -> return False
EmitPut(p, kind) ==
    LET e == Event(kind, now, Len(emitted) + 1)
    IN  /\ pending[p] = <<>>
        /\ Kinds[kind].source = p
        /\ IF ~QueueFull(queue)
           THEN /\ queue' = Append(queue, e)
                /\ pending' = [pending EXCEPT ![p] = <<e>>]
                /\ emitted' = Append(emitted, [ev |-> e, ok |-> TRUE])
           ELSE /\ emitted' = Append(emitted, [ev |-> e, ok |-> FALSE])
                /\ UNCHANGED <<queue, pending>>
        /\ UNCHANGED <<now, system_paused, last_event_time, active_sources,
                       listeners, action_callbacks, running,
                       bus_last_action_time, mapperVars, stats, handled, calls, script, auxVars>>

\* with self.lock: last_event_time[source] = timestamp; active_sources.add(source)
EmitRecord(p) ==
    LET e == Head(pending[p])
    IN  /\ pending[p] # <<>>
        /\ last_event_time' =
              [s \in DOMAIN last_event_time \cup {e.source} |->
                  IF s = e.source THEN e.timestamp ELSE last_event_time[s]]
        /\ active_sources' = active_sources \cup {e.source}
        /\ pending' = [pending EXCEPT ![p] = <<>>]
        /\ UNCHANGED <<now, queue, system_paused, listeners, action_callbacks,
                       running, bus_last_action_time, mapperVars, stats,
                       emitted, handled, calls, script, auxVars>>

\* emit_event run without another thread in between its two steps
EmitEvent(p, kind) ==
    LET e == Event(kind, now, Len(emitted) + 1)
    IN  /\ pending[p] = <<>>
        /\ Kinds[kind].source = p
        /\ IF ~QueueFull(queue)
           THEN /\ queue' = Append(queue, e)
                /\ last_event_time' =
                      [s \in DOMAIN last_event_time \cup {e.source} |->
                          IF s = e.source THEN e.timestamp ELSE last_event_time[s]]
                /\ active_sources' = active_sources \cup {e.source}
                /\ emitted' = Append(emitted, [ev |-> e, ok |-> TRUE])
           ELSE /\ emitted' = Append(emitted, [ev |-> e, ok |-> FALSE])
                /\ UNCHANGED <<queue, last_event_time, active_sources>>
        /\ UNCHANGED <<now, pending, system_paused, listeners, action_callbacks,
                       running, bus_last_action_time, mapperVars, stats,
                       handled, calls, script, auxVars>>

\* the module function emit_event(event_type, source, data, priority) with a
\* priority of the caller's choice, run without another thread in between
EmitWithPriority(p, kind, priority) ==
    LET e == [Event(kind, now, Len(emitted) + 1) EXCEPT !.priority = priority]
    IN  /\ pending[p] = <<>>
        /\ Kinds[kind].source = p
        /\ IF ~QueueFull(queue)
           THEN /\ queue' = Append(queue, e)
                /\ last_event_time' =
                      [s \in DOMAIN last_event_time \cup {e.source} |->
                          IF s = e.source THEN e.timestamp ELSE last_event_time[s]]
                /\ active_sources' = active_sources \cup {e.source}
                /\ emitted' = Append(emitted, [ev |-> e, ok |-> TRUE])
           ELSE /\ emitted' = Append(emitted, [ev |-> e, ok |-> FALSE])
                /\ UNCHANGED <<queue, last_event_time, active_sources>>
        /\ UNCHANGED <<now, pending, system_paused, listeners, action_callbacks,
                       running, bus_last_action_time, mapperVars, stats,
                       handled, calls, script, auxVars>>

(***************************************************************************)
(* EventBus._process_events: one iteration of the consumer loop that       *)
(* dequeues an event and runs _handle_event on it                          *)
(***************************************************************************)
\* variant of Dequeue: a priority queue, the most urgent event first
DequeueByPriority(q) ==
    LET best == CHOOSE i \in 1..Len(q) :
                    \A j \in 1..Len(q) :
                        \/ q[j].priority < q[i].priority
                        \/ (q[j].priority = q[i].priority /\ i <= j)
    IN  [event |-> q[best],
         rest |-> SubSeq(q, 1, best - 1) \o SubSeq(q, best + 1, Len(q))]

\* variant of Dequeue: the event is read and left in the queue
DequeuePeek(q) == [event |-> Head(q), rest |-> q]

\* self.event_queue.get(): queue.Queue is first in, first out
Dequeue(q) == [event |-> Head(q), rest |-> Tail(q)]

\* event = self.event_queue.get(...); self._handle_event(event), with its
\* except clauses
HandleEvent(customRaises, injRaises, raising) ==
    LET e == Dequeue(queue).event
        outcome == Outcome(e, now)
        \* _toggle_system_pause
        toggledTo == ~system_paused
        sysType == IF toggledTo THEN "system_pause" ELSE "system_resume"
        \* _notify_listeners
        notifiedType == CASE outcome = "toggled" -> sysType
                          [] outcome = "processed" -> e.event_type
                          [] OTHER -> None
        notified == NotifyListeners(notifiedType, raising)
        \* _execute_action
        hasAction == outcome = "processed" /\ e.action # None
        cb == IF hasAction THEN Callback(e.action) ELSE None
        \* _execute_unified_action
        unified == IF cb # None THEN UnifiedAction(e.action, e) ELSE None
        r == ExecuteAction(unified, e.source, DetailsOf(e), now, last_action_time,
                           action_history, handlers, customRaises, injRaises)
        mapperCalled == unified # None
        success == mapperCalled /\ r.ok
        \* self.stats[f"{source}_actions"] raises KeyError for another source
        cbRaised == success /\ e.source \notin StatSources
    IN  /\ processor_alive
        /\ queue # <<>>
        /\ raising \subseteq
              (IF notifiedType = None THEN {} ELSE Range(listeners[notifiedType]))
        /\ queue' = Dequeue(queue).rest
        /\ processor_alive' = ProcessorSurvives(raising \cap Range(notified) # {}, cbRaised)
        /\ system_paused' = IF outcome = "toggled" THEN toggledTo ELSE system_paused
        /\ IF mapperCalled
           THEN /\ now' = r.t
                /\ last_action_time' = r.last
                /\ action_history' = r.history
                /\ calls' = Append(calls,
                      CallRecord(unified, e.source, DetailsOf(e), now,
                                 last_action_time, action_history, handlers, r))
           ELSE UNCHANGED <<now, last_action_time, action_history, calls>>
        /\ stats' = IF success /\ ~cbRaised
                    THEN [stats EXCEPT ![e.source] = @ + 1, !.total = @ + 1]
                    ELSE stats
        /\ bus_last_action_time' = IF cb # None /\ ~cbRaised THEN now' ELSE bus_last_action_time
        /\ handled' = Append(handled,
              [ev |-> e, at |-> now, paused |-> system_paused,
               paused_after |-> system_paused',
               listening |-> listeners[e.event_type],
               registered |-> e.action \in action_callbacks,
               outcome |-> outcome,
               notified_type |-> notifiedType,
               notified |-> notified,
               notify_list |-> IF notifiedType = None THEN <<>>
                               ELSE listeners[notifiedType],
               enqueued |-> Len(queue') - Len(Dequeue(queue).rest),
               active |-> active_sources,
               since_voice |-> now - Get(last_event_time, "voice"),
               raising |-> raising,
               called |-> cb # None,
               bus_last_before |-> bus_last_action_time,
               bus_last_after |-> bus_last_action_time',
               callback_raised |-> cbRaised,
               executed |-> success])
        /\ UNCHANGED <<pending, last_event_time, active_sources, listeners,
                       action_callbacks, running, handlers, emitted, script, eyeVars,
                       lockVars>>

\* one iteration of "while self.running", taken as one step
ProcessEvents(customRaises, injRaises, raising) ==
    /\ running
    /\ HandleEvent(customRaises, injRaises, raising)
    /\ UNCHANGED <<stopVars, globalVars, laterVars>>

\* EventBus.shutdown: self.running = False
Shutdown ==
    /\ running
    /\ running' = FALSE
    /\ UNCHANGED <<now, queue, pending, system_paused, last_event_time,
                   active_sources, listeners, action_callbacks,
                   bus_last_action_time, mapperVars, stats, emitted, handled, calls, script, auxVars>>

(***************************************************************************)
(* Spec: the integrated system.  The producer threads emit, the consumer   *)
(* thread handles.  Listeners and further action callbacks are registered  *)
(* during start-up, before the modality threads emit their first event.    *)
(***************************************************************************)
\* one iteration of the consumer loop, whatever the callbacks do
Consume ==
    \E c, i \in BOOLEAN : \E raising \in SUBSET (1..NumListeners) :
        ProcessEvents(c, i, raising)

MaxTime == StartTime + MaxTicks * ExecSleepMs
SpecKinds == {"voice_copy", "gesture_pinch", "gesture_pause"}
SpecListenTypes == {"voice_command", "gesture_detected"}
SpecCallbackNames == {"copy"}

Next ==
    \/ now < MaxTime /\ Tick
    \/ \E p \in Producers, k \in SpecKinds : Len(emitted) < MaxEmit /\ EmitPut(p, k)
    \/ \E p \in Producers : EmitRecord(p)
    \/ Consume
    \/ \E t \in SpecListenTypes :
          NumListeners < MaxListeners /\ emitted = <<>> /\ RegisterListener(t)
    \/ \E a \in SpecCallbackNames : emitted = <<>> /\ RegisterActionCallback(a)
    \/ Shutdown

Spec == Init /\ [][Next]_vars

(***************************************************************************)
(* History variables read by the properties                                *)
(***************************************************************************)
HandledIds == {handled[i].ev.id : i \in 1..Len(handled)}
AcceptedIds == {i \in 1..Len(emitted) : emitted[i].ok}
RejectedIds == {i \in 1..Len(emitted) : ~emitted[i].ok}
QueuedIds == {queue[i].id : i \in 1..Len(queue)}

(***************************************************************************)
(* C1: whenever the bus is paused and the consumer loop handles a          *)
(* pause-toggle event (gesture_pause, source "gesture"), the bus becomes   *)
(* unpaused: the pause-toggle event passes the pause gate.                 *)
(* The code drops the event at the pause gate, so this is violated.        *)
(***************************************************************************)
C1_PauseToggleResumes ==
    \A i \in 1..Len(handled) :
        (handled[i].paused /\ handled[i].ev.event_type = "gesture_pause"
            /\ handled[i].ev.source = "gesture")
        => (handled[i].outcome = "toggled" /\ ~handled[i].paused_after)

(***************************************************************************)
(* C2: while system_paused is true, handling a non-voice event notifies no *)
(* listener and invokes no action callback (dropped as "system_paused");   *)
(* a voice event is still delivered to the listeners of its type and, if   *)
(* it carries an action with a registered callback, to that callback.      *)
(***************************************************************************)
C2_PauseGate ==
    \A i \in 1..Len(handled) :
        LET h == handled[i]
        IN  h.paused =>
              /\ h.ev.source # "voice" =>
                    /\ h.outcome = "system_paused"
                    /\ h.notified = <<>>
                    /\ ~h.called
                    /\ ~h.executed
                    /\ h.paused_after
              /\ (h.ev.source = "voice" /\ h.ev.event_type # "gesture_pause") =>
                    /\ h.outcome = "processed"
                    /\ h.notified_type = h.ev.event_type
                    /\ h.notified = h.listening
                    /\ (h.ev.action # None /\ h.registered) => h.called

\* a voice command handled while paused reached a listener and its callback
C2_Witness ==
    \E i \in 1..Len(handled) :
        /\ handled[i].paused
        /\ handled[i].ev.source = "voice"
        /\ handled[i].notified # <<>>
        /\ handled[i].called

C8_ActionForwarded ==
    \A i \in 1..Len(handled) :
        (handled[i].outcome = "processed" /\ handled[i].ev.action # None)
        => handled[i].called

(***************************************************************************)
(* FairSpec: the bus with its consumer thread scheduled fairly.  The       *)
(* consumer is a dedicated thread that loops on the queue for as long as   *)
(* running is true, so an iteration that stays possible is taken.          *)
(***************************************************************************)
NextFair ==
    \/ \E p \in Producers, k \in SpecKinds : Len(emitted) < MaxEmit /\ EmitPut(p, k)
    \/ \E p \in Producers : EmitRecord(p)
    \/ Consume
    \/ Shutdown

FairSpec == Init /\ [][NextFair]_vars /\ WF_vars(Consume)

(***************************************************************************)
(* C6: every event for which emit_event returned True is handled by the    *)
(* consumer loop exactly once: never twice, only if it was accepted, and,  *)
(* while the bus is running and the consumer thread is scheduled fairly,   *)
(* eventually; also when several producer threads emit concurrently.       *)
(***************************************************************************)
HandledAtMostOnce ==
    /\ \A i, j \in 1..Len(handled) :
          handled[i].ev.id = handled[j].ev.id => i = j
    /\ HandledIds \subseteq AcceptedIds
    /\ HandledIds \cap QueuedIds = {}
    /\ AcceptedIds = HandledIds \cup QueuedIds

C6_ExactlyOnce ==
    /\ []HandledAtMostOnce
    /\ \A id \in 1..MaxEmit :
          (id \in AcceptedIds) ~> (id \in HandledIds \/ ~running)

\* two producer threads are inside emit_event at the same time, between the
\* put and the bookkeeping, and the consumer has already handled both events
C6_Witness ==
    /\ pending["voice"] # <<>>
    /\ pending["gesture"] # <<>>
    /\ {Head(pending["voice"]).id, Head(pending["gesture"]).id} \subseteq HandledIds
    /\ running

(***************************************************************************)
(* SpecFull: one producer thread floods the bus with events, as            *)
(* realtime_test.test_event_queue_performance does, while the consumer     *)
(* thread runs; the queue reaches its capacity.                            *)
(***************************************************************************)
NextFull ==
    \/ Len(emitted) < FullEmits /\ EmitPut("test", "test_event")
    \/ EmitRecord("test")
    \/ Consume

SpecFull == Init /\ [][NextFull]_vars

(***************************************************************************)
(* C5: emit_event never blocks.  With fewer than 100 events queued it      *)
(* enqueues the event and returns True; with 100 events queued it returns  *)
(* False, the event is not enqueued and is never handled, and the queue,   *)
(* last_event_time and active_sources are unchanged.  The queue never      *)
(* holds more than 100 events.                                             *)
(***************************************************************************)
EmitStepContract ==
    Len(emitted') = Len(emitted) + 1 =>
        LET r == emitted'[Len(emitted')]
        IN  IF Len(queue) < 100
            THEN r.ok /\ queue' = Append(queue, r.ev)
            ELSE /\ ~r.ok
                 /\ UNCHANGED <<queue, last_event_time, active_sources>>

C5_EmitNeverBlocks ==
    /\ [](Len(queue) <= 100)
    /\ [](RejectedIds \cap (QueuedIds \cup HandledIds) = {})
    /\ [](\A p \in Producers : \A k \in DOMAIN Kinds :
            (pending[p] = <<>> /\ Kinds[k].source = p) => ENABLED EmitPut(p, k))
    /\ [][EmitStepContract]_vars

\* the queue is full and an emit_event call has returned False
C5_Witness ==
    /\ Len(queue) = 100
    /\ RejectedIds # {}
    /\ Len(handled) > 0

(***************************************************************************)
(* ActionMapper used directly: register_action_handler and execute_action  *)
(***************************************************************************)
RegisterActionHandler(action_name) ==
    /\ handlers' = handlers \cup {action_name}
    /\ UNCHANGED <<now, busVars, last_action_time, action_history, stats,
                   emitted, handled, calls, script, auxVars>>

\* a call of execute_action(name, source, details) by any thread
MapperCall(name, source, details, customRaises, injRaises) ==
    LET r == ExecuteAction(name, source, details, now, last_action_time,
                           action_history, handlers, customRaises, injRaises)
    IN  /\ now' = r.t
        /\ last_action_time' = r.last
        /\ action_history' = r.history
        /\ calls' = Append(calls,
              CallRecord(name, source, details, now, last_action_time,
                         action_history, handlers, r))
        /\ UNCHANGED <<busVars, handlers, stats, emitted, handled, script, auxVars>>

(***************************************************************************)
(* SpecMapper: any sequence of execute_action calls, of standard actions,  *)
(* of actions bound to a custom handler and of unknown actions.            *)
(***************************************************************************)
MapperNames == {"copy", "my_action", "unknown_action"}
MapperCustomNames == {"my_action"}

NextMapper ==
    \/ now < StartTime + MapperTicks * ExecSleepMs /\ Tick
    \/ \E a \in MapperCustomNames : RegisterActionHandler(a)
    \/ \E a \in MapperNames, c, i \in BOOLEAN :
          Len(calls) < MaxCalls /\ MapperCall(a, "test", "direct", c, i)

SpecMapper == Init /\ [][NextMapper]_vars

InitHistory ==
    /\ BaseInit
    /\ handlers \in {{}, {"paste"}}
    /\ script = <<>>

IsOk(c) == c.ok
Executed == SelectSeq(calls, IsOk)

HistoryCallName == IF Len(calls) % 2 = 0 THEN "copy" ELSE "paste"

NextHistory ==
    \/ ~CheckCooldown(now, last_action_time) /\ Tick
    \/ /\ CheckCooldown(now, last_action_time)
       /\ Len(Executed) < HistoryRuns
       /\ MapperCall(HistoryCallName, "test", "run", FALSE, FALSE)

SpecHistory == InitHistory /\ [][NextHistory]_vars

(***************************************************************************)
(* C10: the action history never holds more than 100 records and always    *)
(* equals the most recent min(n, 100) successful executions in execution   *)
(* order; after 150 successful executions get_action_history(1000) returns *)
(* exactly the 100 most recent records.                                    *)
(***************************************************************************)
ExecutedRecords ==
    [k \in 1..Len(Executed) |->
        [action |-> Executed[k].name, source |-> Executed[k].source,
         time |-> Executed[k].returned, details |-> Executed[k].details]]

C10_HistoryBound ==
    LET n == Len(Executed)
        m == IF n < 100 THEN n ELSE 100
    IN  /\ Len(action_history) <= 100
        /\ action_history = [k \in 1..m |-> ExecutedRecords[n - m + k]]
        /\ n = 150 =>
              GetActionHistory(action_history, 1000)
                  = [k \in 1..100 |-> ExecutedRecords[50 + k]]

\* 150 executions have succeeded and the oldest 50 records are gone
C10_Witness ==
    /\ Len(Executed) = 150
    /\ Len(action_history) = 100
    /\ action_history[1] = ExecutedRecords[51]
    /\ action_history[1] # action_history[100]

(***************************************************************************)
(* SpecScenario: the integrated controller with the default configuration, *)
(* unpaused and with empty history.  The modality threads emit the events  *)
(* of a script at their instants; the consumer thread handles each event   *)
(* at once or later.                                                       *)
(***************************************************************************)
At(kind, ms) == [kind |-> kind, at |-> ms]

\* spec.md, 8: Voice("copy") @0.0, Gesture("pinch") @0.1, Eye("left_gaze") @0.2,
\* Gesture("peace") @0.9
ScriptConcrete ==
    <<At("voice_copy", 0), At("gesture_pinch", 100), At("eye_left_gaze", 200),
      At("gesture_peace", 900)>>

\* spec.md, 8: a voice event at t=0, other events at t=0.3 and at t=0.6
ScriptDominance ==
    <<At("voice_copy", 0), At("gesture_pinch", 300), At("eye_left_gaze", 300),
      At("gesture_peace", 600)>>
ScriptDominanceEye ==
    <<At("voice_copy", 0), At("eye_left_gaze", 300), At("eye_double_blink", 600)>>

Scripts == {ScriptConcrete, ScriptDominance, ScriptDominanceEye}

InitScenario ==
    /\ BaseInit
    /\ handlers = {}
    /\ script \in Scripts

NextDue == Len(emitted) + 1

ScenarioEmit ==
    /\ NextDue <= Len(script)
    /\ now = StartTime + script[NextDue].at
    /\ EmitEvent(Kinds[script[NextDue].kind].source, script[NextDue].kind)

ScenarioTick ==
    /\ now < StartTime + ScenarioEnd
    /\ NextDue <= Len(script) => now < StartTime + script[NextDue].at
    /\ Tick

NextScenario ==
    \/ ScenarioTick
    \/ ScenarioEmit
    \/ Consume

SpecScenario == InitScenario /\ [][NextScenario]_vars

(***************************************************************************)
(* C4, as claimed: with a voice event emitted at t=0, a non-voice event    *)
(* emitted at t=0.3 is dropped by conflict resolution and one emitted at   *)
(* t=0.6 is accepted, whatever the delay between its emission and the      *)
(* moment the consumer loop handles it.                                    *)
(* Violated: the window is measured at the moment of handling.             *)
(***************************************************************************)
C4_VoiceDominanceAnyDelay ==
    \A i \in 1..Len(handled) :
        handled[i].ev.source # "voice" =>
            /\ handled[i].ev.timestamp = StartTime + 300
                  => handled[i].outcome = "conflict_resolution"
            /\ handled[i].ev.timestamp = StartTime + 600
                  => handled[i].outcome = "processed"

(***************************************************************************)
(* C4, amended: with a voice event emitted at t=0 and none after it, a     *)
(* non-voice event is dropped by conflict resolution exactly when the      *)
(* consumer loop handles it before t=0.5 and is accepted otherwise: one    *)
(* emitted at t=0.3 is dropped if handled before t=0.5 and accepted if     *)
(* handled later; one emitted at t=0.6 is accepted.                        *)
(***************************************************************************)
C4_VoiceDominanceAtHandling ==
    \A i \in 1..Len(handled) :
        LET h == handled[i]
            voiceAt == emitted[1].ev.timestamp
        IN  h.ev.source # "voice" =>
                /\ h.outcome \in {"conflict_resolution", "processed"}
                /\ h.outcome = "conflict_resolution" <=> h.at - voiceAt < 500
                /\ h.ev.timestamp - voiceAt >= 600 => h.outcome = "processed"

\* of two events emitted at t=0.3, one was handled before t=0.5 and dropped,
\* the other was handled later and accepted; the event of t=0.6 was accepted
C4_Witness ==
    /\ script = ScriptDominance
    /\ Len(handled) = 4
    /\ handled[2].at < StartTime + 500 /\ handled[2].outcome = "conflict_resolution"
    /\ handled[3].at >= StartTime + 500 /\ handled[3].outcome = "processed"
    /\ handled[4].outcome = "processed"

(***************************************************************************)
(* C9: emitting Voice("copy") at 0.0, Gesture("pinch") at 0.1,             *)
(* Eye("left_gaze") at 0.2 and Gesture("peace") at 0.9, each handled at    *)
(* once, the voice copy action executes, pinch and left_gaze are dropped   *)
(* by voice dominance, and peace is accepted and its action executes.      *)
(* Violated: no action executes, the callback under "*" is never found.    *)
(***************************************************************************)
C9_ConcreteScenario ==
    (/\ script = ScriptConcrete
     /\ Len(handled) = 4
     /\ \A i \in 1..4 : handled[i].at = handled[i].ev.timestamp)
    => /\ handled[1].outcome = "processed" /\ handled[1].executed
       /\ handled[2].outcome = "conflict_resolution"
       /\ handled[3].outcome = "conflict_resolution"
       /\ handled[4].outcome = "processed" /\ handled[4].executed
       /\ \E k \in 1..Len(action_history) :
             action_history[k].action = "copy" /\ action_history[k].source = "voice"
       /\ \E k \in 1..Len(action_history) :
             action_history[k].action = "paste" /\ action_history[k].source = "gesture"

(***************************************************************************)
(* eye_module.py: IrisTracker                                              *)
(***************************************************************************)
\* variant of DetectBlink: last_blink_time is not brought up to date
DetectBlinkStaleLast(is_closed, t, bc, bt, ec, lbt) ==
    LET opened == is_closed /\ ~ec
        bc1 == IF opened THEN bc + 1 ELSE bc
        bt1 == IF opened THEN t ELSE bt
        emit == IF opened /\ bc1 = 2 /\ t - lbt < DoubleBlinkMs
                    THEN <<"eye_double_blink">>
                ELSE IF opened /\ bc1 = 3 /\ t - lbt < TripleBlinkMs
                    THEN <<"eye_triple_blink">>
                ELSE <<>>
        reset == bt1 # NoTime /\ bt1 # 0 /\ t - bt1 > BlinkResetMs
    IN  [blink_count |-> IF reset THEN 0 ELSE bc1,
         blink_time |-> IF reset THEN NoTime ELSE bt1,
         eyes_closed |-> is_closed,
         last_blink_time |-> lbt,
         emit |-> emit]

\* detect_blink(left_ear, right_ear, t), is_closed being avg_ear < blink_threshold,
\* on the blink state (blink_count, blink_time, eyes_closed, last_blink_time)
DetectBlink(is_closed, t, bc, bt, ec, lbt) ==
    LET opened == is_closed /\ ~ec
        bc1 == IF opened THEN bc + 1 ELSE bc
        bt1 == IF opened THEN t ELSE bt
        emit == IF opened /\ bc1 = 2 /\ t - lbt < DoubleBlinkMs
                    THEN <<"eye_double_blink">>
                ELSE IF opened /\ bc1 = 3 /\ t - lbt < TripleBlinkMs
                    THEN <<"eye_triple_blink">>
                ELSE <<>>
        reset == bt1 # NoTime /\ bt1 # 0 /\ t - bt1 > BlinkResetMs
    IN  [blink_count |-> IF reset THEN 0 ELSE bc1,
         blink_time |-> IF reset THEN NoTime ELSE bt1,
         eyes_closed |-> is_closed,
         last_blink_time |-> IF opened THEN t ELSE lbt,
         emit |-> emit]

\* the event process_frame emits for an eye ("left", "right") that gazes
GazeKind(eye, gaze) ==
    IF eye = "left" /\ gaze = "LEFT" THEN "eye_left_gaze"
    ELSE IF eye = "right" /\ gaze = "LEFT" THEN "eye_right_left_gaze"
    ELSE IF eye = "left" /\ gaze = "RIGHT" THEN "eye_left_right_gaze"
    ELSE IF eye = "right" /\ gaze = "RIGHT" THEN "eye_right_gaze"
    ELSE None

\* process_frame, the part of one eye: gaze is the classification of this
\* frame, (last_gaze, start) the state of the eye, last_action the time of
\* the last gaze action of either eye
GazeStep(eye, gaze, t, last_gaze, start, last_action) ==
    LET same == [last_gaze |-> last_gaze, start |-> start,
                 last_action |-> last_action, emit |-> <<>>]
    IN  IF gaze # last_gaze
            THEN [same EXCEPT !.start = NoTime, !.last_gaze = gaze]
        ELSE IF gaze = "CENTER" THEN same
        ELSE IF start = NoTime THEN [same EXCEPT !.start = t]
        ELSE IF t - start >= GazeHoldMs /\ t - last_action > GazeCooldownMs
                /\ Get(EYE_ACTIONS, GazeKey(gaze)) # None
            THEN [same EXCEPT !.start = NoTime, !.last_action = t,
                              !.emit = <<GazeKind(eye, gaze)>>]
        ELSE same

\* the bus after emit_event of an event of this kind at time t, on the bus
\* state b = [queue, emitted, let, active]
EmitOnBus(b, kind, t) ==
    LET e == Event(kind, t, Len(b.emitted) + 1)
    IN  IF ~QueueFull(b.queue)
        THEN [queue |-> Append(b.queue, e),
              emitted |-> Append(b.emitted, [ev |-> e, ok |-> TRUE]),
              let |-> [s \in DOMAIN b.let \cup {e.source} |->
                          IF s = e.source THEN e.timestamp ELSE b.let[s]],
              active |-> b.active \cup {e.source}]
        ELSE [b EXCEPT !.emitted = Append(@, [ev |-> e, ok |-> FALSE])]

RECURSIVE EmitAllOnBus(_, _, _)
EmitAllOnBus(b, kinds, t) ==
    IF kinds = <<>> THEN b
    ELSE EmitAllOnBus(EmitOnBus(b, Head(kinds), t), Tail(kinds), t)

\* IrisTracker.run, one iteration: the next camera frame is read and
\* process_frame runs on it at t = time.time(); the frame shows the eyes
\* closed or not, and each eye gazing in a direction
ProcessFrame(left_gaze, right_gaze, is_closed) ==
    LET t == now + FramePeriodMs
        b == DetectBlink(is_closed, t, blink_count, blink_time, eyes_closed,
                         last_blink_time)
        l == GazeStep("left", left_gaze, t, last_left_gaze, left_gaze_start,
                      eye_last_action_time)
        r == GazeStep("right", right_gaze, t, last_right_gaze, right_gaze_start,
                      l.last_action)
        bus == EmitAllOnBus([queue |-> queue, emitted |-> emitted,
                             let |-> last_event_time, active |-> active_sources],
                            b.emit \o l.emit \o r.emit, t)
    IN  /\ now' = t
        /\ blink_count' = b.blink_count
        /\ blink_time' = b.blink_time
        /\ eyes_closed' = b.eyes_closed
        /\ last_blink_time' = b.last_blink_time
        /\ last_left_gaze' = l.last_gaze
        /\ left_gaze_start' = l.start
        /\ last_right_gaze' = r.last_gaze
        /\ right_gaze_start' = r.start
        /\ eye_last_action_time' = r.last_action
        /\ queue' = bus.queue
        /\ emitted' = bus.emitted
        /\ last_event_time' = bus.let
        /\ active_sources' = bus.active
        /\ left_since' = IF left_gaze = last_left_gaze THEN left_since ELSE t
        /\ closings' = IF is_closed /\ ~eyes_closed THEN Append(closings, t)
                       ELSE closings
        /\ last_eye_frame' = "face"
        /\ right_since' = IF right_gaze = "CENTER" THEN NoTime
                          ELSE IF right_gaze = last_right_gaze THEN right_since
                          ELSE t
        /\ UNCHANGED last_no_face
        /\ UNCHANGED <<pending, system_paused, listeners, action_callbacks,
                       running, bus_last_action_time, mapperVars, stats,
                       handled, calls, script, processor_alive, restVars>>

(***************************************************************************)
(* SpecGaze: the eye tracker on a sequence of frames with open eyes, each  *)
(* eye looking left or at the centre.                                      *)
(***************************************************************************)
NextGaze ==
    \E lg \in {"LEFT", "CENTER"} :
        \E rg \in {lg, "CENTER"} :
            /\ now < StartTime + MaxGazeFrames * FramePeriodMs
            /\ ProcessFrame(lg, rg, FALSE)

SpecGaze == Init /\ [][NextGaze]_vars

(***************************************************************************)
(* SpecBlink: the eye tracker on a sequence of frames with both eyes at    *)
(* the centre, open or closed.                                             *)
(***************************************************************************)
NextBlink ==
    \E c \in BOOLEAN :
        /\ now < StartTime + MaxBlinkFrames * FramePeriodMs
        /\ ProcessFrame("CENTER", "CENTER", c)

SpecBlink == Init /\ [][NextBlink]_vars

(***************************************************************************)
(* C11: gaze hold timing for one eye.  Classifying LEFT for less than      *)
(* 0.8 s emits no gaze event; at the frame where LEFT has been classified  *)
(* continuously for 0.8 s, the gaze cooldown having elapsed, one gaze      *)
(* event is emitted; two gaze events of the eye are never less than 1.2 s  *)
(* apart, so there is not one per frame while the hold is maintained.      *)
(* Violated: the hold timer starts at the second LEFT frame, so the event  *)
(* comes one frame after the hold reached 0.8 s, or not at all.            *)
(***************************************************************************)
LeftGazeTimes ==
    {emitted[i].ev.timestamp : i \in {j \in 1..Len(emitted) :
                                        emitted[j].ev.event_type = "eye_gaze_left"}}
GazeTimes ==
    {emitted[i].ev.timestamp : i \in {j \in 1..Len(emitted) :
          emitted[j].ev.event_type \in {"eye_gaze_left", "eye_gaze_right"}}}

C11_ShortHoldSilent ==
    (last_left_gaze = "LEFT" /\ now - left_since < 800)
        => \A t \in LeftGazeTimes : t < left_since

C11_HoldReached ==
    /\ last_left_gaze = "LEFT"
    /\ now - left_since >= 800
    /\ (now - FramePeriodMs) - left_since < 800

C11_CooldownElapsed ==
    /\ now - StartTime > 1200
    /\ \A t \in GazeTimes : t < now => now - t > 1200

C11_SingleShot ==
    \A t1, t2 \in LeftGazeTimes : t1 < t2 => t2 - t1 >= 1200

C11_GazeHoldTiming ==
    /\ C11_ShortHoldSilent
    /\ (C11_HoldReached /\ C11_CooldownElapsed) => now \in LeftGazeTimes
    /\ C11_SingleShot

(***************************************************************************)
(* Blink events emitted so far                                             *)
(***************************************************************************)
DoubleBlinks ==
    {j \in 1..Len(emitted) : emitted[j].ev.event_type = "eye_double_blink"}
TripleBlinks ==
    {j \in 1..Len(emitted) : emitted[j].ev.event_type = "eye_triple_blink"}

(***************************************************************************)
(* C12: starting from blink_count = 0, exactly two open-to-closed          *)
(* transitions less than 0.5 s apart, followed by more than 1.0 s without  *)
(* a blink, make detect_blink emit exactly one EYE_DOUBLE_BLINK event, at  *)
(* the second transition, and no EYE_TRIPLE_BLINK event.                   *)
(***************************************************************************)
C12_DoubleBlink ==
    (/\ Len(closings) = 2
     /\ closings[2] - closings[1] < 500
     /\ now - closings[2] > 1000)
    => /\ Cardinality(DoubleBlinks) = 1
       /\ \A j \in DoubleBlinks : emitted[j].ev.timestamp = closings[2]
       /\ TripleBlinks = {}
       /\ blink_count = 0

\* two blinks three frames apart, then more than a second of open eyes
C12_Witness ==
    /\ Len(closings) = 2
    /\ closings[2] - closings[1] = 3 * FramePeriodMs
    /\ now - closings[2] > 1000
    /\ Cardinality(DoubleBlinks) = 1

(***************************************************************************)
(* C13: an EYE_TRIPLE_BLINK event is emitted exactly once for a sequence   *)
(* of exactly three open-to-closed transitions whose third transition is   *)
(* less than 0.7 s after the first, and is not emitted when the third      *)
(* transition is 0.7 s or more after the first.                            *)
(* Violated: the window is measured from the second blink, not the first.  *)
(***************************************************************************)
C13_TripleWithinWindow ==
    (Len(closings) = 3 /\ closings[3] - closings[1] < 700)
        => Cardinality(TripleBlinks) = 1

C13_TripleBlinkCumulative ==
    /\ C13_TripleWithinWindow
    /\ (Len(closings) = 3 /\ closings[3] - closings[1] >= 700)
          => TripleBlinks = {}

(***************************************************************************)
(* C14: if the external input-injection call raises while execute_action   *)
(* performs a standard action, execute_action returns False, no            *)
(* ActionRecord is appended and last_action_time is not updated.           *)
(* Violated: the executor swallows the exception, execute_action goes on,  *)
(* records the action, starts the cooldown and returns True.               *)
(***************************************************************************)
C14_InjectionErrorReported ==
    \A i \in 1..Len(calls) :
        (calls[i].raised /\ ~calls[i].custom /\ calls[i].name \in ACTION_MAPPINGS)
        => /\ ~calls[i].ok
           /\ ~calls[i].recorded
           /\ calls[i].last_after = calls[i].last_before

(***************************************************************************)
(* C15: execute_action with a name that is neither a registered custom     *)
(* handler nor a key of ACTION_MAPPINGS returns False and leaves           *)
(* action_history and last_action_time unchanged, so that a standard       *)
(* action called next succeeds exactly when the cooldown it found before   *)
(* the unknown call has elapsed.                                           *)
(***************************************************************************)
UnknownCall(c) == ~c.custom /\ c.name \notin ACTION_MAPPINGS

C15_UnknownActionHarmless ==
    \A i \in 1..Len(calls) :
        UnknownCall(calls[i]) =>
            /\ ~calls[i].ok
            /\ ~calls[i].raised
            /\ ~calls[i].recorded
            /\ calls[i].last_after = calls[i].last_before
            /\ (i < Len(calls) /\ calls[i + 1].name \in ACTION_MAPPINGS
                               /\ ~calls[i + 1].custom)
               => /\ calls[i + 1].last_before = calls[i].last_before
                  /\ calls[i + 1].ok
                        <=> calls[i + 1].at - calls[i].last_before >= 200

\* an unknown action is refused once the cooldown has elapsed, and a standard
\* action called at the same instant succeeds
C15_Witness ==
    \E i \in 1..Len(calls) - 1 :
        /\ UnknownCall(calls[i])
        /\ calls[i].last_before > 0
        /\ calls[i].at - calls[i].last_before >= 200
        /\ ~calls[i].ok
        /\ calls[i + 1].name = "copy"
        /\ calls[i + 1].at = calls[i].at
        /\ calls[i + 1].ok

(***************************************************************************)
(* SpecFaults: the bus with callbacks that raise.  Up to MaxFaultListeners *)
(* listeners are registered at start-up, and the unified executor is also  *)
(* registered under the name "copy"; the executor raises KeyError on a     *)
(* successful action of a source it keeps no statistics for.  The mapper   *)
(* has no custom handler and pyautogui works.                              *)
(***************************************************************************)
FaultKinds == {"voice_copy", "test_copy"}
FaultListenTypes == {"voice_command", "gesture_detected"}

NextFaults ==
    \/ \E t \in FaultListenTypes :
          NumListeners < MaxFaultListeners /\ emitted = <<>> /\ RegisterListener(t)
    \/ emitted = <<>> /\ "copy" \notin action_callbacks /\ RegisterActionCallback("copy")
    \/ \E p \in Producers, k \in FaultKinds :
          Len(emitted) < MaxFaultEmits /\ EmitEvent(p, k)
    \/ \E raising \in SUBSET (1..NumListeners) : ProcessEvents(FALSE, FALSE, raising)
    \/ Shutdown

SpecFaults == Init /\ [][NextFaults]_vars

(***************************************************************************)
(* C16: when several listeners are registered for an event type and one of *)
(* them raises, every listener registered for that type is still invoked   *)
(* for the event, in registration order, and the action callback of the    *)
(* event is still invoked afterwards.                                      *)
(***************************************************************************)
C16_ListenerErrorIsolated ==
    \A i \in 1..Len(handled) :
        (handled[i].outcome = "processed" /\ handled[i].raising # {})
        => /\ handled[i].notified = handled[i].listening
           /\ (handled[i].ev.action # None /\ handled[i].registered)
                 => handled[i].called

\* two listeners of one type, the first one raises, both are called and so
\* is the action callback
C16_Witness ==
    \E i \in 1..Len(handled) :
        /\ Len(handled[i].listening) = 2
        /\ handled[i].raising = {handled[i].listening[1]}
        /\ handled[i].notified = handled[i].listening
        /\ handled[i].called

Frame(op, pc, arg, ev, todo, held) ==
    [op |-> op, pc |-> pc, arg |-> arg, ev |-> ev, todo |-> todo, held |-> held]

LockedOps ==
    {"should", "copy_listeners", "lookup", "toggle", "emit",
     "register_listener", "register_action_callback", "get_status"}

Top(t) == stack[t][Len(stack[t])]
Popped(st) == SubSeq(st, 1, Len(st) - 1)
WithTop(st, f) == Append(Popped(st), f)

\* variant of CallsOutsideLock: the loop over the callbacks is inside the
\* "with self.lock" block
CallsUnderLock(op) == FALSE

\* _notify_listeners and _execute_action leave the "with self.lock" block
\* before they call the callbacks they found
CallsOutsideLock(op) == TRUE

\* what no step of a bus call changes
lockFixed == <<pending, running, stats, handled, script, eyeVars, processor_alive,
              hud_toggles, stopVars, globalVars, laterVars>>

\* _process_events: the processor thread takes the next event and enters
\* _handle_event
StartHandle ==
    /\ stack["processor"] = <<>>
    /\ running /\ processor_alive
    /\ queue # <<>>
    /\ queue' = Dequeue(queue).rest
    /\ stack' = [stack EXCEPT !["processor"] =
                    <<Frame("handle", "gate", None, Dequeue(queue).event, <<>>, FALSE)>>]
    /\ UNCHANGED <<now, system_paused, last_event_time, active_sources, listeners,
                   action_callbacks, bus_last_action_time, mapperVars, emitted,
                   calls, lock, lockFixed>>

\* the number of calls of _toggle_system_pause so far
TogglesBegun ==
    Len(pause_notices)
    + Cardinality({ti \in Threads \X (1..MaxDepth) :
                      /\ ti[2] <= Len(stack[ti[1]])
                      /\ stack[ti[1]][ti[2]].op = "toggle"})

\* integrator.py, display_unified_hud: the key P calls _toggle_system_pause
HudToggle ==
    /\ stack["hud"] = <<>>
    /\ hud_toggles < MaxHudToggles
    /\ TogglesBegun < MaxLockToggles
    /\ hud_toggles' = hud_toggles + 1
    /\ stack' = [stack EXCEPT !["hud"] =
                    <<Frame("toggle", "acquire", None, <<>>, <<>>, FALSE)>>]
    /\ UNCHANGED <<now, queue, system_paused, last_event_time, active_sources,
                   listeners, action_callbacks, bus_last_action_time, mapperVars,
                   emitted, calls, lock, pending, running, stats, handled, script,
                   eyeVars, processor_alive, stopVars, globalVars, laterVars>>

\* _handle_event, from one call it makes to the next
HandleStep(t) ==
    LET f == Top(t)
        e == f.ev
        call(pc, g) == Append(WithTop(stack[t], [f EXCEPT !.pc = pc]), g)
    IN  /\ stack[t] # <<>>
        /\ f.op = "handle"
        /\ f.pc # "should"
        /\ stack' = [stack EXCEPT ![t] =
              CASE f.pc = "gate" /\ system_paused /\ e.source # "voice" ->
                       Popped(stack[t])
                [] f.pc = "gate" /\ ~(system_paused /\ e.source # "voice")
                                 /\ e.event_type = "gesture_pause" ->
                       call("ret", Frame("toggle", "acquire", None, <<>>, <<>>, FALSE))
                [] f.pc = "gate" /\ ~(system_paused /\ e.source # "voice")
                                 /\ e.event_type # "gesture_pause" ->
                       call("should", Frame("should", "acquire", None, <<>>, <<>>, FALSE))
                [] f.pc = "notify" ->
                       call("action",
                            Frame("copy_listeners", "acquire", e.event_type, e, <<>>, FALSE))
                [] f.pc = "action" /\ e.action # None ->
                       call("ret", Frame("lookup", "acquire", e.action, e, <<>>, FALSE))
                [] OTHER -> Popped(stack[t])]
        /\ UNCHANGED <<now, queue, system_paused, last_event_time, active_sources,
                       listeners, action_callbacks, bus_last_action_time,
                       mapperVars, emitted, calls, lock, lockFixed>>

\* "with self.lock:" is entered: the thread waits until the lock is free
Acquire(t) ==
    /\ stack[t] # <<>>
    /\ Top(t).op \in LockedOps
    /\ Top(t).pc = "acquire"
    /\ lock = None
    /\ lock' = t
    /\ stack' = [stack EXCEPT ![t] = WithTop(@, [Top(t) EXCEPT !.pc = "locked"])]
    /\ UNCHANGED <<now, queue, system_paused, last_event_time, active_sources,
                   listeners, action_callbacks, bus_last_action_time, mapperVars,
                   emitted, calls, lockFixed>>

\* the body of a "with self.lock:" block and what follows it up to the next
\* call: the lock is released at the end of the block
LockedBlock(t) ==
    LET f == Top(t)
        rest == Popped(stack[t])
        outside == CallsOutsideLock(f.op)
        parent == rest[Len(rest)]
        toggledTo == ~system_paused
        bus == EmitOnBus([queue |-> queue, emitted |-> emitted,
                          let |-> last_event_time, active |-> active_sources],
                         f.arg, now)
    IN  /\ stack[t] # <<>>
        /\ f.op \in LockedOps
        /\ f.pc = "locked"
        /\ lock' = IF f.op \in {"copy_listeners", "lookup"} /\ ~outside
                   THEN lock ELSE None
        /\ stack' = [stack EXCEPT ![t] =
              CASE f.op = "should" ->
                       WithTop(rest, [parent EXCEPT !.pc =
                           IF ShouldProcessEvent(parent.ev, now, last_event_time,
                                                 active_sources)
                           THEN "notify" ELSE "ret"])
                [] f.op = "copy_listeners" ->
                       Append(rest, Frame("calls", "call", None, f.ev,
                                          listeners[f.arg], ~outside))
                [] f.op = "lookup" ->
                       Append(rest, Frame("calls", "call", None, f.ev,
                                          IF Callback(f.arg) # None THEN <<0>> ELSE <<>>,
                                          ~outside))
                [] f.op = "toggle" ->
                       Append(rest, Frame("toggle", "read", toggledTo,
                                          <<>>, <<>>, FALSE))
                [] OTHER -> rest]
        /\ system_paused' = IF f.op = "toggle" THEN toggledTo ELSE system_paused
        /\ queue' = IF f.op = "emit" THEN bus.queue ELSE queue
        /\ emitted' = IF f.op = "emit" THEN bus.emitted ELSE emitted
        /\ last_event_time' = IF f.op = "emit" THEN bus.let ELSE last_event_time
        /\ active_sources' = IF f.op = "emit" THEN bus.active ELSE active_sources
        /\ listeners' = IF f.op = "register_listener"
                        THEN [listeners EXCEPT ![f.arg] = Append(@, NumListeners + 1)]
                        ELSE listeners
        /\ action_callbacks' = IF f.op = "register_action_callback"
                               THEN action_callbacks \cup {f.arg}
                               ELSE action_callbacks
        /\ UNCHANGED <<now, bus_last_action_time, mapperVars, calls, lockFixed>>

\* the event type for the value v of system_paused
PauseEventType(v) == IF v THEN "system_pause" ELSE "system_resume"

\* _toggle_system_pause after its "with self.lock" block: it reads
\* self.system_paused again, without the lock, to choose between SYSTEM_PAUSE
\* and SYSTEM_RESUME, and calls _notify_listeners with that event.  The frame
\* remembers in arg the value this invocation wrote under the lock.
ToggleNotify(t) ==
    LET f == Top(t)
    IN  /\ stack[t] # <<>>
        /\ f.op = "toggle"
        /\ f.pc = "read"
        /\ stack' = [stack EXCEPT ![t] =
               WithTop(@, Frame("copy_listeners", "acquire",
                                PauseEventType(system_paused), <<>>, <<>>, FALSE))]
        /\ pause_notices' = Append(pause_notices,
               [produced |-> f.arg,
                event |-> PauseEventType(system_paused)])
        /\ UNCHANGED <<now, queue, system_paused, last_event_time, active_sources,
                       listeners, action_callbacks, bus_last_action_time,
                       mapperVars, emitted, calls, lock, pending, running, stats,
                       handled, script, eyeVars, processor_alive, hud_toggles,
                       stopVars, globalVars, raceVars, hudVars, configVars,
                       gestureVars, gazeFnVars, statusVars, queryVars>>

\* for callback in callbacks: the next callback is called, or the loop ends
Calls(t) ==
    LET f == Top(t)
    IN  /\ stack[t] # <<>>
        /\ f.op = "calls"
        /\ IF f.todo # <<>>
           THEN /\ stack' = [stack EXCEPT ![t] =
                       Append(WithTop(stack[t], [f EXCEPT !.todo = Tail(@)]),
                              Frame("callback", "body", None, f.ev,
                                    <<Head(f.todo)>>, FALSE))]
                /\ lock' = lock
           ELSE /\ stack' = [stack EXCEPT ![t] = Popped(@)]
                /\ lock' = IF f.held THEN None ELSE lock
        /\ UNCHANGED <<now, queue, system_paused, last_event_time, active_sources,
                       listeners, action_callbacks, bus_last_action_time,
                       mapperVars, emitted, calls, lockFixed>>

\* the action callback runs: _execute_unified_action, which calls the mapper
\* and returns; _execute_action then sets the last_action_time of the bus
UnifiedCallback(t) ==
    LET f == Top(t)
        e == f.ev
        unified == UnifiedAction(e.action, e)
        r == ExecuteAction(unified, e.source, DetailsOf(e), now, last_action_time,
                           action_history, handlers, FALSE, FALSE)
        success == unified # None /\ r.ok
        cbRaised == success /\ e.source \notin StatSources
    IN  /\ stack[t] # <<>>
        /\ f.op = "callback"
        /\ f.todo = <<0>>
        /\ stack' = [stack EXCEPT ![t] = Popped(@)]
        /\ IF unified # None
           THEN /\ now' = r.t
                /\ last_action_time' = r.last
                /\ action_history' = r.history
                /\ calls' = Append(calls,
                      CallRecord(unified, e.source, DetailsOf(e), now,
                                 last_action_time, action_history, handlers, r))
           ELSE UNCHANGED <<now, last_action_time, action_history, calls>>
        /\ stats' = IF success /\ ~cbRaised
                    THEN [stats EXCEPT ![e.source] = @ + 1, !.total = @ + 1]
                    ELSE stats
        /\ bus_last_action_time' = IF cbRaised THEN bus_last_action_time ELSE now'
        /\ UNCHANGED <<queue, system_paused, last_event_time, active_sources,
                       listeners, action_callbacks, handlers, emitted, lock,
                       pending, running, handled, script, eyeVars, processor_alive,
                       hud_toggles, stopVars, globalVars, laterVars>>

LockKinds == {"voice_copy", "gesture_pause"}
LockListenTypes == {"voice_command", "system_pause"}

\* what a listener may ask of the bus it is called by: the method, and
\* the argument that matters here
Reentries ==
    {<<"emit", k>> : k \in {k \in LockKinds : Len(emitted) < MaxLockEmits}}
    \cup {<<"register_listener", ty>> :
             ty \in {ty \in LockListenTypes : NumListeners < MaxLockListeners}}
    \cup {<<"register_action_callback", a>> : a \in {"copy"} \ action_callbacks}
    \cup {<<"get_status", None>>}
    \cup {<<"toggle", None>> : b \in {b \in {TRUE} : TogglesBegun < MaxLockToggles}}

\* a listener runs: it returns, or it first calls a method of the bus
ListenerCallback(t) ==
    LET f == Top(t)
    IN  /\ stack[t] # <<>>
        /\ f.op = "callback"
        /\ f.todo # <<0>>
        /\ \/ stack' = [stack EXCEPT ![t] = Popped(@)]
           \/ /\ f.pc = "body"
              /\ Len(stack[t]) < MaxDepth
              /\ \E r \in Reentries :
                    stack' = [stack EXCEPT ![t] =
                        Append(WithTop(stack[t], [f EXCEPT !.pc = "ret"]),
                               Frame(r[1], "acquire", r[2], <<>>, <<>>, FALSE))]
        /\ UNCHANGED <<now, queue, system_paused, last_event_time, active_sources,
                       listeners, action_callbacks, bus_last_action_time,
                       mapperVars, emitted, calls, lock, lockFixed>>

(***************************************************************************)
(* SpecLock: the processor thread, the HUD thread and the producer threads *)
(* on one bus, with listeners that call back into the bus.                 *)
(***************************************************************************)
NextLock ==
    \/ \E ty \in LockListenTypes :
          /\ NumListeners < MaxLockListeners /\ emitted = <<>> /\ lock = None
          /\ RegisterListener(ty)
    \/ \E p \in Producers, k \in LockKinds :
          Len(emitted) < MaxLockEmits /\ lock = None /\ EmitEvent(p, k)
    \/ StartHandle
    \/ HudToggle
    \/ \E t \in Threads : HandleStep(t)
    \/ \E t \in Threads : Acquire(t)
    \/ \E t \in Threads : LockedBlock(t)
    \/ \E t \in Threads : ToggleNotify(t)
    \/ \E t \in Threads : Calls(t)
    \/ \E t \in Threads : UnifiedCallback(t)
    \/ \E t \in Threads : ListenerCallback(t)

SpecLock == Init /\ [][NextLock]_vars

\* the next step of thread t inside the bus
ThreadStep(t) ==
    \/ HandleStep(t)
    \/ Acquire(t)
    \/ LockedBlock(t)
    \/ ToggleNotify(t)
    \/ Calls(t)
    \/ UnifiedCallback(t)
    \/ ListenerCallback(t)

\* thread t is inside a call made by a listener or an action callback
InCallback(t) == \E i \in 1..Len(stack[t]) : stack[t][i].op = "callback"

\* C18 (1): the thread that holds the lock is inside a "with self.lock" block,
\* so the lock is never held while a listener or an action callback runs
C18_LockOnlyInBlock ==
    \A t \in Threads :
        lock = t => /\ stack[t] # <<>>
                    /\ Top(t).op \in LockedOps
                    /\ Top(t).pc = "locked"

\* C18 (2): no thread waits for a lock that it holds itself
C18_NoSelfWait ==
    \A t \in Threads :
        ~(stack[t] # <<>> /\ Top(t).pc = "acquire" /\ lock = t)

\* C18 (3): no deadlock: a thread inside the bus can take its next step, or it
\* waits for the lock held by another thread and that thread can take its next step
C18_NoDeadlock ==
    \A t \in Threads :
        stack[t] # <<>> =>
            \/ ENABLED ThreadStep(t)
            \/ /\ Top(t).pc = "acquire"
               /\ lock \in Threads \ {t}
               /\ ENABLED ThreadStep(lock)

\* C18: the bus lock is never held while a listener or action callback runs: a
\* callback that calls emit_event, register_listener, register_action_callback,
\* get_status or _toggle_system_pause on the same bus completes without
\* deadlock, and no thread waits for a lock held by itself
C18_CallbacksOutsideLock ==
    /\ C18_LockOnlyInBlock
    /\ C18_NoSelfWait
    /\ C18_NoDeadlock

\* a listener called its bus back with _toggle_system_pause, and the thread is
\* inside the locked block of that call
C18_Witness ==
    \E t \in Threads :
        /\ Len(stack[t]) >= 2
        /\ stack[t][Len(stack[t]) - 1].op = "callback"
        /\ stack[t][Len(stack[t]) - 1].pc = "ret"
        /\ Top(t).op = "toggle"
        /\ Top(t).pc = "locked"
        /\ lock = t

\* thread t is inside _toggle_system_pause and has not yet called
\* _notify_listeners
Toggling(t) ==
    \E i \in 1..Len(stack[t]) : stack[t][i].op = "toggle"

\* C37: when _toggle_system_pause is invoked concurrently by the consumer
\* thread and the HUD thread, each invocation notifies with the event that
\* matches the state this invocation produced, the SYSTEM_PAUSE/SYSTEM_RESUME
\* notifications strictly alternate, and once no toggle is in progress the
\* last notification agrees with system_paused
C37_ToggleNotifiesOwnState ==
    /\ \A i \in 1..Len(pause_notices) :
          pause_notices[i].event = PauseEventType(pause_notices[i].produced)
    /\ \A i \in 1..(Len(pause_notices) - 1) :
          pause_notices[i].event # pause_notices[i + 1].event
    /\ (pause_notices # <<>> /\ \A t \in Threads : ~Toggling(t)) =>
          pause_notices[Len(pause_notices)].event = PauseEventType(system_paused)

(***************************************************************************)
(* SpecStop: the consumer loop and shutdown.  The consumer thread is in    *)
(* get(timeout=0.1), in _handle_event, or past the end of its loop; the    *)
(* main thread calls shutdown; the producers go on emitting.  A handler    *)
(* takes as long as its listeners take.                                    *)
(***************************************************************************)
StopKinds == {"voice_copy"}

\* variant of LoopContinues: while True
LoopContinuesAlways(r) == TRUE

\* while self.running
LoopContinues(r) == r

\* processor_thread.join(timeout=2.0) returns now
JoinDue ==
    /\ shutdown_pc = "joining"
    /\ consumer_pc = "exited" \/ now >= stop_at + JoinTimeoutMs

\* get(timeout=0.1) returns now: with an event, or with queue.Empty
PollDue ==
    /\ consumer_pc = "poll"
    /\ queue # <<>> \/ now >= poll_start + PollMs

\* get returns an event and _handle_event is called with it
ConsumerGet ==
    /\ consumer_pc = "poll"
    /\ ~JoinDue
    /\ HandleEvent(FALSE, FALSE, {})
    /\ consumer_pc' = "handle"
    /\ stop_gets' = IF running THEN stop_gets ELSE stop_gets + 1
    /\ UNCHANGED <<poll_start, shutdown_pc, stop_at, stop_pc, returned_at, left_ids,
                   globalVars, laterVars>>

\* the end of an iteration: self.running is read, and get is called again or
\* the loop is left
LoopTest ==
    /\ IF LoopContinues(running)
       THEN consumer_pc' = "poll" /\ poll_start' = now
       ELSE consumer_pc' = "exited" /\ poll_start' = poll_start
    /\ UNCHANGED <<now, busVars, mapperVars, stats, emitted, handled, calls, script,
                   eyeVars, processor_alive, lockVars, shutdown_pc, stop_at,
                   stop_pc, stop_gets, returned_at, left_ids, globalVars, laterVars>>

\* except queue.Empty: continue
ConsumerTimeout ==
    /\ consumer_pc = "poll"
    /\ queue = <<>>
    /\ now >= poll_start + PollMs
    /\ LoopTest

\* _handle_event returns
ConsumerReturn ==
    /\ consumer_pc = "handle"
    /\ LoopTest

\* shutdown: self.running = False, and join is entered
ShutdownStart ==
    /\ shutdown_pc = "idle"
    /\ running' = FALSE
    /\ shutdown_pc' = "joining"
    /\ stop_at' = now
    /\ stop_pc' = consumer_pc
    /\ UNCHANGED <<now, queue, pending, system_paused, last_event_time,
                   active_sources, listeners, action_callbacks,
                   bus_last_action_time, mapperVars, stats, emitted, handled,
                   calls, script, eyeVars, processor_alive, lockVars, consumer_pc,
                   poll_start, stop_gets, returned_at, left_ids, globalVars, laterVars>>

\* join returns, the thread has ended or not, and shutdown returns
ShutdownJoin ==
    /\ JoinDue
    /\ shutdown_pc' = "returned"
    /\ returned_at' = now
    /\ left_ids' = {queue[i].id : i \in 1..Len(queue)}
    /\ UNCHANGED <<now, busVars, mapperVars, stats, emitted, handled, calls, script,
                   eyeVars, processor_alive, lockVars, consumer_pc, poll_start,
                   stop_at, stop_pc, stop_gets, globalVars, laterVars>>

\* time passes, unless a timed call returns first
StopTick ==
    /\ ~JoinDue
    /\ ~PollDue
    /\ shutdown_pc = "idle" => now < StartTime + MaxStopTicks * ExecSleepMs
    /\ shutdown_pc # "idle" => now < stop_at + JoinTimeoutMs + PollMs
    /\ now' = now + ExecSleepMs
    /\ UNCHANGED <<busVars, mapperVars, stats, emitted, handled, calls, script,
                   auxVars>>

\* the producers emit until one poll interval after the last instant at which
\* shutdown is called
StopEmitEnd == StartTime + MaxStopTicks * ExecSleepMs + PollMs

NextStop ==
    \/ \E p \in Producers, k \in StopKinds :
          /\ Len(emitted) < MaxStopEmits
          /\ now <= StopEmitEnd
          /\ EmitEvent(p, k)
    \/ ConsumerGet
    \/ ConsumerTimeout
    \/ ConsumerReturn
    \/ ShutdownStart
    \/ ShutdownJoin
    \/ StopTick

SpecStop == Init /\ [][NextStop]_vars

\* C19 (1), as claimed: once running is false the consumer is in the poll or
\* in the handler it was in at that time, or it has left the loop from there
C19_ExitsFromCurrent ==
    ~running =>
        /\ stop_gets = 0
        /\ consumer_pc = "poll" => poll_start <= stop_at /\ now <= poll_start + PollMs

\* C19 (1), as the loop does it: the poll that was going on when running became
\* false may still return one event, and the loop is left after its handler
C19_ExitsAfterLastPoll ==
    ~running =>
        /\ stop_gets <= 1
        /\ stop_gets = 1 => stop_pc = "poll"
        /\ consumer_pc = "poll" =>
              stop_gets = 0 /\ poll_start <= stop_at /\ now <= poll_start + PollMs

\* C19 (2): shutdown returns at most 2 s after it set running to false
C19_JoinBounded ==
    /\ shutdown_pc = "joining" => now <= stop_at + JoinTimeoutMs
    /\ shutdown_pc = "returned" => returned_at <= stop_at + JoinTimeoutMs

\* C19 (3): an event that is in the queue when shutdown returns is never handled
C19_LeftNeverHandled ==
    \A i \in 1..Len(handled) : handled[i].ev.id \notin left_ids

\* C19 as claimed: after shutdown sets running to false the consumer loop exits
\* no later than the end of its current poll or of the handler it is running,
\* shutdown returns within the 2 s join timeout, and the events then in the
\* queue are never handled
C19_ShutdownStopsConsumer ==
    /\ C19_ExitsFromCurrent
    /\ C19_JoinBounded
    /\ C19_LeftNeverHandled

\* C19 amended: the consumer loop exits no later than the end of its current
\* poll, of the handler it is running, or of the handler of the one event that
\* its current poll returns; the rest as claimed
C19_ShutdownStopsConsumerAfterLastPoll ==
    /\ C19_ExitsAfterLastPoll
    /\ C19_JoinBounded
    /\ C19_LeftNeverHandled

\* the join timed out, the consumer left its loop after the handler of the
\* event that its last poll returned, and an event stayed in the queue
C19_Witness ==
    /\ shutdown_pc = "returned"
    /\ returned_at = stop_at + JoinTimeoutMs
    /\ consumer_pc = "exited"
    /\ stop_gets = 1
    /\ left_ids # {}

(***************************************************************************)
(* SpecGlobal: the module-level bus.  The producer threads call the module *)
(* function emit_event, which calls get_event_bus, with no call made       *)
(* before; the processor thread of each instance handles its events.       *)
(***************************************************************************)
InitGlobal ==
    /\ BusInit
    /\ GlobalInit(NoBus)
    /\ allow_eye_gesture = ALLOW_EYE_GESTURE
    /\ GazeFnIdle
    /\ QueryIdle
    /\ handlers = {}
    /\ script = <<>>

globalFixed == <<now, busVars, mapperVars, stats, emitted, handled, calls, script,
                 eyeVars, processor_alive, lockVars, stopVars, laterVars>>

\* the module function emit_event is called: the Event is built and
\* get_event_bus is called
GlobalCall(t) ==
    /\ caller_pc[t] = "done"
    /\ global_calls < MaxGlobalEmits
    /\ global_calls' = global_calls + 1
    /\ caller_pc' = [caller_pc EXCEPT ![t] = "test"]
    /\ UNCHANGED <<global_event_bus, buses, caller_bus, bus_events, bus_handling,
                   returned_buses, globalFixed>>

\* if _event_bus is None:
GetBusTest(t) ==
    /\ caller_pc[t] = "test"
    /\ caller_pc' = [caller_pc EXCEPT ![t] =
                        IF global_event_bus = NoBus THEN "construct" ELSE "return"]
    /\ UNCHANGED <<global_event_bus, buses, caller_bus, bus_events, bus_handling,
                   returned_buses, global_calls, globalFixed>>

\* EventBus(): a new instance, whose __init__ starts its processor thread
GetBusConstruct(t) ==
    /\ caller_pc[t] = "construct"
    /\ buses' = buses + 1
    /\ caller_bus' = [caller_bus EXCEPT ![t] = buses + 1]
    /\ caller_pc' = [caller_pc EXCEPT ![t] = "assign"]
    /\ UNCHANGED <<global_event_bus, bus_events, bus_handling, returned_buses,
                   global_calls, globalFixed>>

\* _event_bus = <the new instance>
GetBusAssign(t) ==
    /\ caller_pc[t] = "assign"
    /\ global_event_bus' = caller_bus[t]
    /\ caller_pc' = [caller_pc EXCEPT ![t] = "return"]
    /\ UNCHANGED <<buses, caller_bus, bus_events, bus_handling, returned_buses,
                   global_calls, globalFixed>>

\* return _event_bus
GetBusReturn(t) ==
    /\ caller_pc[t] = "return"
    /\ caller_bus' = [caller_bus EXCEPT ![t] = global_event_bus]
    /\ returned_buses' = returned_buses \cup {global_event_bus}
    /\ caller_pc' = [caller_pc EXCEPT ![t] = "emit"]
    /\ UNCHANGED <<global_event_bus, buses, bus_events, bus_handling, global_calls,
                   globalFixed>>

\* get_event_bus().emit_event(event): the event goes into the queue of the
\* instance that was returned
GlobalEmit(t) ==
    /\ caller_pc[t] = "emit"
    /\ bus_events' = [bus_events EXCEPT ![caller_bus[t]] = @ + 1]
    /\ caller_pc' = [caller_pc EXCEPT ![t] = "done"]
    /\ UNCHANGED <<global_event_bus, buses, caller_bus, bus_handling,
                   returned_buses, global_calls, globalFixed>>

\* the processor thread of instance i gets an event and enters _handle_event
BusHandleStart(i) ==
    /\ i <= buses
    /\ ~bus_handling[i]
    /\ bus_events[i] > 0
    /\ bus_events' = [bus_events EXCEPT ![i] = @ - 1]
    /\ bus_handling' = [bus_handling EXCEPT ![i] = TRUE]
    /\ UNCHANGED <<global_event_bus, buses, caller_pc, caller_bus, returned_buses,
                   global_calls, globalFixed>>

\* _handle_event returns
BusHandleEnd(i) ==
    /\ bus_handling[i]
    /\ bus_handling' = [bus_handling EXCEPT ![i] = FALSE]
    /\ UNCHANGED <<global_event_bus, buses, caller_pc, caller_bus, bus_events,
                   returned_buses, global_calls, globalFixed>>

NextGlobal ==
    \/ \E t \in Callers : GlobalCall(t)
    \/ \E t \in Callers : GetBusTest(t)
    \/ \E t \in Callers : GetBusConstruct(t)
    \/ \E t \in Callers : GetBusAssign(t)
    \/ \E t \in Callers : GetBusReturn(t)
    \/ \E t \in Callers : GlobalEmit(t)
    \/ \E i \in Instances : BusHandleStart(i)
    \/ \E i \in Instances : BusHandleEnd(i)

SpecGlobal == InitGlobal /\ [][NextGlobal]_vars

\* C20: at most one thread is executing _handle_event for the global bus:
\* get_event_bus returns the same EventBus instance to every caller and only one
\* consumer thread exists, also when several producer threads make their first
\* call of get_event_bus / emit_event concurrently
C20_SingleConsumer ==
    /\ Cardinality({i \in Instances : bus_handling[i]}) <= 1
    /\ Cardinality(returned_buses) <= 1
    /\ buses <= 1

(***************************************************************************)
(* SpecRace: execute_action at the grain of its statements, called by two  *)
(* threads on the shared mapper.  ActionMapper has no lock.                *)
(***************************************************************************)
RaceNames == {"copy", "unknown_action"}

raceFixed == <<busVars, stats, emitted, handled, calls, script, eyeVars,
               processor_alive, lockVars, stopVars, globalVars, hudVars,
               tailVars>>

\* execute_action(name, "test", "direct") is called
RaceCall(t, name) ==
    /\ mapper_pc[t] = "idle"
    /\ Len(race_done) + Cardinality({u \in MapperThreads : mapper_pc[u] # "idle"})
          < MaxRaceCalls
    /\ mapper_pc' = [mapper_pc EXCEPT ![t] = "check"]
    /\ mapper_req' = [mapper_req EXCEPT ![t] =
                         [name |-> name, start |-> now, wake |-> now]]
    /\ UNCHANGED <<now, mapperVars, race_done, raceFixed>>

\* the call returns
RaceReturned(t, ok) ==
    /\ mapper_pc' = [mapper_pc EXCEPT ![t] = "idle"]
    /\ mapper_req' = [mapper_req EXCEPT ![t] = <<>>]
    /\ race_done' = Append(race_done,
          [thread |-> t, name |-> mapper_req[t].name,
           start |-> mapper_req[t].start, at |-> now, ok |-> ok])

\* _check_cooldown, the look-up of the action, and the call of the executor,
\* which injects the input and begins its sleep
RaceCheck(t) ==
    /\ mapper_pc[t] = "check"
    /\ IF CheckCooldown(now, last_action_time)
          /\ mapper_req[t].name \notin handlers
          /\ mapper_req[t].name \in ACTION_MAPPINGS
       THEN /\ mapper_pc' = [mapper_pc EXCEPT ![t] = "sleep"]
            /\ mapper_req' = [mapper_req EXCEPT ![t].wake = now + ExecSleepMs]
            /\ UNCHANGED <<action_history, race_done>>
       ELSE IF CheckCooldown(now, last_action_time) /\ mapper_req[t].name \in handlers
       THEN /\ action_history' = RecordAction(action_history,
                  ActionRecord(mapper_req[t].name, "test", now, "direct"))
            /\ RaceReturned(t, TRUE)
       ELSE /\ RaceReturned(t, FALSE)
            /\ UNCHANGED action_history
    /\ UNCHANGED <<now, last_action_time, handlers, raceFixed>>

\* the executor returns: self.last_action_time = time.time()
RaceSetLast(t) ==
    /\ mapper_pc[t] = "sleep"
    /\ now >= mapper_req[t].wake
    /\ last_action_time' = now
    /\ mapper_pc' = [mapper_pc EXCEPT ![t] = "record"]
    /\ UNCHANGED <<now, action_history, handlers, mapper_req, race_done, raceFixed>>

\* _record_action, log_action, return True
RaceRecord(t) ==
    /\ mapper_pc[t] = "record"
    /\ action_history' = RecordAction(action_history,
          ActionRecord(mapper_req[t].name, "test", now, "direct"))
    /\ RaceReturned(t, TRUE)
    /\ UNCHANGED <<now, last_action_time, handlers, raceFixed>>

\* time passes
RaceTick ==
    /\ now < StartTime + MaxRaceTicks * ExecSleepMs
    /\ now' = now + ExecSleepMs
    /\ UNCHANGED <<mapperVars, raceVars, raceFixed>>

NextRace ==
    \/ \E t \in MapperThreads, a \in RaceNames : RaceCall(t, a)
    \/ \E t \in MapperThreads : RaceCheck(t)
    \/ \E t \in MapperThreads : RaceSetLast(t)
    \/ \E t \in MapperThreads : RaceRecord(t)
    \/ RaceTick

SpecRace == Init /\ [][NextRace]_vars

\* C21: with execute_action called concurrently from two threads, at most one
\* of two calls that start within 0.2 s of each other returns True, and every
\* call that returns True leaves exactly one record in action_history
C21_ConcurrentCooldown ==
    /\ \A i, j \in 1..Len(race_done) :
          (i < j /\ race_done[i].ok /\ race_done[j].ok) =>
              \/ race_done[j].start - race_done[i].start >= CooldownMs
              \/ race_done[i].start - race_done[j].start >= CooldownMs
    /\ Len(action_history) =
          Cardinality({i \in 1..Len(race_done) : race_done[i].ok})

\* a call of an action that execute_action knows: one bound to a custom handler
\* or a key of ACTION_MAPPINGS
KnownCall(c) == c.custom \/ c.name \in ACTION_MAPPINGS

\* C22: execute_action of a known action called when at least 0.2 s have passed
\* since last_action_time returns True, sets last_action_time to the current
\* time and appends one ActionRecord; called earlier it returns False, changes
\* neither last_action_time nor action_history and performs no effect
C22_ExecuteEffect ==
    \A i \in 1..Len(calls) :
        KnownCall(calls[i]) =>
            IF calls[i].at - calls[i].last_before >= CooldownMs
            THEN /\ calls[i].ok
                 /\ calls[i].last_after = calls[i].returned
                 /\ calls[i].recorded
            ELSE /\ ~calls[i].ok
                 /\ calls[i].last_after = calls[i].last_before
                 /\ ~calls[i].recorded
                 /\ calls[i].returned = calls[i].at

(***************************************************************************)
(* SpecPause: the bus with pause-toggle events, listeners for the pause    *)
(* events, and the HUD loop of the controller reading keys.                *)
(***************************************************************************)
PauseKinds == {"gesture_pause", "pause_with_action", "gesture_pinch"}
PauseListenTypes == {"gesture_pause", "system_pause"}

\* variant of KeyToggles: every key toggles the pause
KeyTogglesAny(key) == TRUE

\* key == ord('p') or key == ord('P')
KeyToggles(key) == key = "p"

\* display_unified_hud: cv2.waitKey returns a key; P calls
\* _toggle_system_pause, which flips the flag and notifies the listeners of
\* SYSTEM_PAUSE or SYSTEM_RESUME; D flips the debug mode
HudKey(key) ==
    /\ hud_keys < MaxHudKeys
    /\ hud_keys' = hud_keys + 1
    /\ system_paused' = IF KeyToggles(key) THEN ~system_paused ELSE system_paused
    /\ hud_toggles' = IF key = "p" THEN hud_toggles + 1 ELSE hud_toggles
    /\ debug_mode' = IF key = "d" THEN ~debug_mode ELSE debug_mode
    /\ UNCHANGED <<now, queue, pending, last_event_time, active_sources, listeners,
                   action_callbacks, running, bus_last_action_time, mapperVars,
                   stats, emitted, handled, calls, script, eyeVars, processor_alive,
                   lock, stack, stopVars, globalVars, raceVars, tailVars>>

NextPause ==
    \/ \E t \in PauseListenTypes :
          NumListeners < MaxPauseListeners /\ emitted = <<>> /\ RegisterListener(t)
    \/ emitted = <<>> /\ "copy" \notin action_callbacks /\ RegisterActionCallback("copy")
    \/ \E p \in Producers, k \in PauseKinds :
          Len(emitted) < MaxPauseEmits /\ EmitEvent(p, k)
    \/ ProcessEvents(FALSE, FALSE, {})
    \/ \E key \in {"p", "d"} : HudKey(key)

SpecPause == Init /\ [][NextPause]_vars

\* C23: handling a pause-toggle event while unpaused flips system_paused once,
\* notifies the listeners of SYSTEM_PAUSE directly, enqueues nothing, and
\* neither notifies the GESTURE_PAUSE listeners nor calls an action callback,
\* also when the data of the event has an "action" key
C23_PauseToggleEffect ==
    \A i \in 1..Len(handled) :
        LET h == handled[i]
        IN  (h.ev.event_type = "gesture_pause" /\ ~h.paused) =>
                /\ h.outcome = "toggled"
                /\ h.paused_after
                /\ h.notified_type = "system_pause"
                /\ h.notified = h.notify_list
                /\ h.enqueued = 0
                /\ Range(h.notified) \cap Range(h.listening) = {}
                /\ ~h.called
                /\ ~h.executed

\* a pause-toggle event with an "action" key was handled while unpaused, with
\* listeners for GESTURE_PAUSE and for SYSTEM_PAUSE and a callback for the action
C23_Witness ==
    \E i \in 1..Len(handled) :
        /\ handled[i].ev.event_type = "gesture_pause"
        /\ ~handled[i].paused
        /\ handled[i].ev.action = "copy"
        /\ handled[i].registered
        /\ handled[i].listening # <<>>
        /\ handled[i].notified # <<>>

\* the number of pause-toggle events the consumer loop has handled
ToggleCount ==
    Cardinality({i \in 1..Len(handled) : handled[i].outcome = "toggled"})

\* C24 as claimed: system_paused changes only when the consumer loop handles
\* a pause-toggle event: the flag is set exactly when an odd number of them
\* was handled
C24_PausedOnlyByToggleEvent ==
    system_paused <=> ToggleCount % 2 = 1

\* C24 amended: system_paused changes only when the consumer loop handles a
\* pause-toggle event or when the HUD loop reads the key P: the flag is set
\* exactly when the two together happened an odd number of times
C24_PausedOnlyByToggleEventOrKey ==
    system_paused <=> (ToggleCount + hud_toggles) % 2 = 1

\* after the key P, a handled pause-toggle event, a handled event of another
\* kind and a registration
C24_Witness ==
    /\ hud_toggles >= 1
    /\ ToggleCount >= 1
    /\ \E i \in 1..Len(handled) : handled[i].outcome # "toggled"
    /\ NumListeners >= 1

\* the sources of the events that the consumer loop let through the pause gate
\* and conflict resolution
AcceptedSources ==
    {handled[i].ev.source :
        i \in {j \in 1..Len(handled) : handled[j].outcome = "processed"}}

\* C25: last_event_time[source] is updated and source is added to
\* active_sources only for events that the consumer loop let through pause
\* gating and conflict resolution; an event dropped as "system_paused" or
\* "conflict_resolution" leaves both unchanged
C25_BookkeepingAtAcceptance ==
    /\ active_sources \subseteq AcceptedSources
    /\ \A s \in DOMAIN last_event_time :
          last_event_time[s] # 0 => s \in AcceptedSources
    /\ \A i \in 1..Len(handled) :
          handled[i].outcome \in {"system_paused", "conflict_resolution"} =>
              \/ handled[i].ev.source \in AcceptedSources
              \/ /\ handled[i].ev.source \notin active_sources
                 /\ Get(last_event_time, handled[i].ev.source) = 0

(***************************************************************************)
(* SpecPolicy: the bus under either value of the eye/gesture policy of     *)
(* SYSTEM_CONFIG, with eye, gesture and voice events.                      *)
(***************************************************************************)
InitPolicy ==
    /\ BusInit
    /\ GlobalInit(1)
    /\ allow_eye_gesture \in BOOLEAN
    /\ GazeFnIdle
    /\ QueryIdle
    /\ handlers = {}
    /\ script = <<>>

PolicyKinds == {"eye_left_gaze", "gesture_pinch", "voice_copy"}

\* time passes, half a voice-dominance window at a time
PolicyStepMs == VoiceDominanceMs \div 2

PolicyTick ==
    /\ now < StartTime + MaxPolicyTicks * PolicyStepMs
    /\ now' = now + PolicyStepMs
    /\ UNCHANGED <<busVars, mapperVars, stats, emitted, handled, calls, script,
                   auxVars>>

NextPolicy ==
    \/ PolicyTick
    \/ \E p \in Producers, k \in PolicyKinds :
          Len(emitted) < MaxPolicyEmits /\ EmitEvent(p, k)
    \/ ProcessEvents(FALSE, FALSE, {})

SpecPolicy == InitPolicy /\ [][NextPolicy]_vars

\* a gesture event entered the queue before event e was emitted
GestureEmittedBefore(e) ==
    \E k \in 1..Len(emitted) :
        /\ emitted[k].ok
        /\ emitted[k].ev.source = "gesture"
        /\ emitted[k].ev.id < e.id

\* C26: an eye event handled outside the voice-dominance window is dropped if
\* and only if "gesture" is in active_sources and the eye_gesture policy is
\* false; with the policy true it always passes; with the policy false every
\* eye event after the first accepted emit of a gesture event is dropped
C26_EyeGestureRule ==
    \A i \in 1..Len(handled) :
        LET h == handled[i]
        IN  h.ev.source = "eye" =>
              /\ h.since_voice >= VoiceDominanceMs =>
                    /\ h.outcome \in {"processed", "conflict_resolution"}
                    /\ h.outcome = "conflict_resolution"
                          <=> ("gesture" \in h.active /\ ~allow_eye_gesture)
                    /\ allow_eye_gesture => h.outcome = "processed"
              /\ (~allow_eye_gesture /\ GestureEmittedBefore(h.ev))
                    => h.outcome = "conflict_resolution"

\* with the policy false, an eye event emitted a whole voice-dominance window
\* after a gesture event, and with no voice event at all, is dropped
C26_Witness ==
    \E i \in 1..Len(handled) :
        /\ ~allow_eye_gesture
        /\ handled[i].ev.source = "eye"
        /\ handled[i].outcome = "conflict_resolution"
        /\ "voice" \notin handled[i].active
        /\ \E k \in 1..Len(emitted) :
              /\ emitted[k].ev.source = "gesture"
              /\ handled[i].ev.timestamp - emitted[k].ev.timestamp >= VoiceDominanceMs

(***************************************************************************)
(* gesture_module.py: HandGestureController                                *)
(***************************************************************************)
\* the classifications _detect_gesture returns that the model feeds in;
\* "move" has no entry in GESTURE_CONFIG["actions"]
GestureInputs == {"pinch", "peace", "pinky_up", "move", "neutral"}

\* the event process_frame emits for the action of a gesture
GestureKind(gesture) ==
    IF gesture = "pinch" THEN "gesture_pinch"
    ELSE IF gesture = "peace" THEN "gesture_peace"
    ELSE "gesture_pinky_up"

\* process_frame on a frame without a hand: lines 166-202 are skipped
NoHandStep(prev, count) == [prev |-> prev, count |-> count]

\* HandGestureController.run, one iteration: the next camera frame is read
\* and process_frame runs on it at t = time.time(); hand tells whether
\* results.multi_hand_landmarks is non-empty, gesture is what _detect_gesture
\* returns for it
GestureFrame(hand, gesture) ==
    LET t == now + FramePeriodMs
        gesture_now == IF hand THEN gesture ELSE "neutral"
        s == IF hand
             THEN [prev |-> gesture,
                   count |-> IF gesture = prev_gesture THEN stable_count + 1
                             ELSE 1]
             ELSE NoHandStep(prev_gesture, stable_count)
        stable == hand /\ s.count >= GestureFramesRequired
        pause == /\ stable
                 /\ gesture_now = "pinky_up"
                 /\ t - last_pause_toggle_time > PauseCooldownMs
        action == IF /\ stable
                     /\ ~gesture_paused
                     /\ gesture_now # "neutral"
                     /\ t - gesture_last_action_time > ActionCooldownMs
                  THEN Get(GESTURE_ACTIONS, gesture_now)
                  ELSE None
        kinds == (IF pause THEN <<"gesture_pause">> ELSE <<>>)
                 \o (IF action # None THEN <<GestureKind(gesture_now)>> ELSE <<>>)
        bus == EmitAllOnBus([queue |-> queue, emitted |-> emitted,
                             let |-> last_event_time, active |-> active_sources],
                            kinds, t)
    IN  /\ now' = t
        /\ prev_gesture' = s.prev
        /\ stable_count' = s.count
        /\ last_pause_toggle_time' = IF pause THEN t ELSE last_pause_toggle_time
        /\ gesture_last_action_time' =
              IF action # None THEN t ELSE gesture_last_action_time
        /\ queue' = bus.queue
        /\ emitted' = bus.emitted
        /\ last_event_time' = bus.let
        /\ active_sources' = bus.active
        /\ gesture_log' = Append(gesture_log,
              [at |-> t, hand |-> hand, gesture |-> gesture_now,
               count_before |-> stable_count, count |-> s.count,
               paused |-> gesture_paused, pause |-> pause, action |-> action])
        /\ UNCHANGED <<gesture_paused, gesture_keys, pending, system_paused,
                       listeners, action_callbacks, running,
                       bus_last_action_time, mapperVars, stats, handled, calls,
                       script, eyeVars, processor_alive, lockVars, stopVars,
                       globalVars, raceVars, hudVars, configVars, gazeFnVars,
                       statusVars, queryVars, toggleVars>>

\* HandGestureController.run: the key 'p' read by cv2.waitKey
GestureKeyP ==
    /\ gesture_keys < MaxGestureKeys
    /\ gesture_keys' = gesture_keys + 1
    /\ gesture_paused' = ~gesture_paused
    /\ UNCHANGED <<now, busVars, mapperVars, stats, emitted, handled, calls,
                   script, eyeVars, processor_alive, lockVars, stopVars,
                   globalVars, raceVars, hudVars, configVars, gazeFnVars, statusVars,
                   queryVars, toggleVars, prev_gesture,
                   stable_count, gesture_last_action_time,
                   last_pause_toggle_time, gesture_log>>

(***************************************************************************)
(* SpecGesture: the gesture controller on a sequence of frames, with and   *)
(* without a hand.                                                         *)
(***************************************************************************)
NextGesture ==
    \/ \E g \in GestureInputs :
          /\ Len(gesture_log) < MaxGestureFrames
          /\ GestureFrame(TRUE, g)
    \/ /\ Len(gesture_log) < MaxGestureFrames
       /\ GestureFrame(FALSE, "neutral")
    \/ GestureKeyP

SpecGesture == Init /\ [][NextGesture]_vars

\* the frames on which process_frame emitted a GESTURE_DETECTED event
ActionFrames == {i \in 1..Len(gesture_log) : gesture_log[i].action # None}

\* C27: an action event is emitted only for a stable, non-neutral
\* classification other than the pause-toggle gesture; a stable pinky_up
\* produces the GESTURE_PAUSE event and never an action event
C27_NoActionForPauseGesture ==
    /\ \A i \in ActionFrames :
          /\ gesture_log[i].count >= GestureFramesRequired
          /\ gesture_log[i].gesture \notin {"neutral", "pinky_up"}
    /\ \A k \in 1..Len(emitted) :
          (emitted[k].ev.event_type = "gesture_detected"
              /\ emitted[k].ev.action # None)
          => emitted[k].ev.details # "pinky_up"

\* the classification of the frame before frame i, None before the first
PrevClassification(i) == IF i = 1 THEN None ELSE gesture_log[i - 1].gesture

\* C28: the run length is incremented on a frame classified as the frame
\* before it and reset to 1 otherwise; no action event is emitted on a frame
\* whose run length is below 2; any two gesture action events are emitted
\* more than 0.3 s apart
C28_StabilityFilter ==
    /\ \A i \in 1..Len(gesture_log) :
          gesture_log[i].count =
              IF gesture_log[i].gesture = PrevClassification(i)
              THEN gesture_log[i].count_before + 1
              ELSE 1
    /\ \A i \in ActionFrames : gesture_log[i].count >= GestureFramesRequired
    /\ \A i, j \in ActionFrames :
          i < j => gesture_log[j].at - gesture_log[i].at > ActionCooldownMs

\* IrisTracker.process_frame on a frame without a face: it returns at line
\* 163, before detect_blink and the gaze tests
ProcessFrameNoFace ==
    /\ now' = now + FramePeriodMs
    /\ last_eye_frame' = "no_face"
    /\ last_no_face' = now + FramePeriodMs
    /\ UNCHANGED <<last_left_gaze, last_right_gaze, left_gaze_start,
                   right_gaze_start, eye_last_action_time, blink_count,
                   blink_time, eyes_closed, last_blink_time, left_since,
                   closings, right_since>>
    /\ UNCHANGED <<busVars, mapperVars, stats, emitted, handled, calls, script,
                   processor_alive, restVars>>

(***************************************************************************)
(* SpecAbsence: the eye tracker and the gesture controller on frames with  *)
(* and without a detection.                                                *)
(***************************************************************************)
AbsenceEnd == StartTime + MaxAbsenceFrames * FramePeriodMs

NextAbsence ==
    \/ \E lg \in {"LEFT", "CENTER"} :
          now < AbsenceEnd /\ ProcessFrame(lg, "CENTER", FALSE)
    \/ now < AbsenceEnd /\ ProcessFrameNoFace
    \/ \E g \in {"pinch", "neutral"} :
          now < AbsenceEnd /\ GestureFrame(TRUE, g)
    \/ now < AbsenceEnd /\ GestureFrame(FALSE, "neutral")

SpecAbsence == Init /\ [][NextAbsence]_vars

\* C29: a frame without a detection resets the debounce state: after a frame
\* without a face the gaze hold timers are cleared, and a non-neutral
\* classification on the frame after one without a hand starts a run of
\* length 1
C29_NoDetectionResets ==
    /\ last_eye_frame = "no_face" =>
          /\ left_gaze_start = NoTime
          /\ right_gaze_start = NoTime
    /\ \A i \in 2..Len(gesture_log) :
          (~gesture_log[i - 1].hand /\ gesture_log[i].gesture # "neutral")
          => gesture_log[i].count = 1

(***************************************************************************)
(* IrisTracker.detect_gaze.  Positions are landmark coordinates in units   *)
(* of 1/GazeGrid of the frame width; the ratio is compared with the        *)
(* thresholds exactly, iris_ratio < p/100 as 100 * (iris_x - eye_left) <   *)
(* p * eye_width for eye_width > 0.                                        *)
(***************************************************************************)
\* variant of DetectGaze: the thresholds themselves are LEFT and RIGHT
DetectGazeInclusive(iris_x, eye_left, eye_right, eye_width) ==
    IF eye_width > 0
    THEN IF 100 * (iris_x - eye_left) <= GazeLeftPct * eye_width THEN "LEFT"
         ELSE IF 100 * (iris_x - eye_left) >= GazeRightPct * eye_width THEN "RIGHT"
         ELSE "CENTER"
    ELSE "CENTER"

DetectGaze(iris_x, eye_left, eye_right, eye_width) ==
    IF eye_width > 0
    THEN IF 100 * (iris_x - eye_left) < GazeLeftPct * eye_width THEN "LEFT"
         ELSE IF 100 * (iris_x - eye_left) > GazeRightPct * eye_width THEN "RIGHT"
         ELSE "CENTER"
    ELSE "CENTER"

\* the arguments of a call: an iris position, the left corner of the eye and
\* its width, which a caller may pass as zero or negative
GazeArgs ==
    [iris_x : 0..GazeGrid, eye_left : 0..GazeGrid, eye_width : (-1)..GazeGrid]

InitDetect ==
    /\ BusInit
    /\ GlobalInit(1)
    /\ allow_eye_gesture = ALLOW_EYE_GESTURE
    /\ handlers = {}
    /\ script = <<>>
    /\ gaze_args \in GazeArgs
    /\ QueryIdle
    /\ gaze_result = None

\* detect_gaze(iris_x, eye_left, eye_right, eye_width) returns
DetectGazeCall ==
    /\ gaze_result = None
    /\ gaze_result' = DetectGaze(gaze_args.iris_x, gaze_args.eye_left,
                                 gaze_args.eye_left + gaze_args.eye_width,
                                 gaze_args.eye_width)
    /\ UNCHANGED <<now, busVars, mapperVars, stats, emitted, handled, calls,
                   script, eyeVars, processor_alive, lockVars, stopVars,
                   globalVars, raceVars, hudVars, configVars, gestureVars,
                   statusVars, queryVars, toggleVars, gaze_args>>

NextDetect == DetectGazeCall

SpecDetect == InitDetect /\ [][NextDetect]_vars

\* 100 * (iris_x - eye_left) and the thresholds scaled by eye_width
RatioPct == 100 * (gaze_args.iris_x - gaze_args.eye_left)
LeftBound == GazeLeftPct * gaze_args.eye_width
RightBound == GazeRightPct * gaze_args.eye_width

\* C30: detect_gaze returns LEFT exactly when the ratio is below 0.40, RIGHT
\* exactly when it is above 0.60 and CENTER otherwise, also at the ratios
\* 0.40 and 0.60 and whenever eye_width <= 0
C30_DetectGaze ==
    gaze_result # None =>
        /\ gaze_result \in {"LEFT", "RIGHT", "CENTER"}
        /\ gaze_args.eye_width <= 0 => gaze_result = "CENTER"
        /\ gaze_args.eye_width > 0 =>
              /\ gaze_result = "LEFT" <=> RatioPct < LeftBound
              /\ gaze_result = "RIGHT" <=> RatioPct > RightBound
              /\ (RatioPct = LeftBound \/ RatioPct = RightBound)
                    => gaze_result = "CENTER"

\* detect_gaze has returned CENTER for a ratio of exactly 0.40
C30_Witness ==
    /\ gaze_result = "CENTER"
    /\ gaze_args.eye_width > 0
    /\ RatioPct = LeftBound

(***************************************************************************)
(* SpecGazeBoth: the eye tracker on frames with open eyes, each eye        *)
(* looking left, right or at the centre, and on one frame without a face.  *)
(***************************************************************************)
BothEnd == StartTime + MaxBothFrames * FramePeriodMs

NextGazeBoth ==
    \/ \E lg \in {"LEFT", "RIGHT", "CENTER"} :
          \E rg \in {lg, "CENTER"} :
              now < BothEnd /\ ProcessFrame(lg, rg, FALSE)
    \/ now < BothEnd /\ last_no_face = NoTime /\ ProcessFrameNoFace

SpecGazeBoth == Init /\ [][NextGazeBoth]_vars

\* the gaze events emitted so far, in the order of emission
IsGazeEvent(r) == r.ev.event_type \in {"eye_gaze_left", "eye_gaze_right"}
GazeEvents == SelectSeq(emitted, IsGazeEvent)

\* the eye has been classified in its present non-CENTER direction on every
\* frame of the last 0.8 s, none of them a frame without a face
HeldLeft ==
    /\ last_left_gaze # "CENTER"
    /\ now - left_since >= GazeHoldMs
    /\ last_no_face < left_since
HeldRight ==
    /\ last_right_gaze # "CENTER"
    /\ now - right_since >= GazeHoldMs
    /\ last_no_face < right_since

\* two gaze events in a row are at least 1.2 s apart
C31_GlobalCooldown ==
    \A k \in 1..(Len(GazeEvents) - 1) :
        GazeEvents[k + 1].ev.timestamp - GazeEvents[k].ev.timestamp
            >= GazeCooldownMs

\* a gaze event of this frame follows a hold of its eye
C31_HeldBefore ==
    \A k \in 1..Len(GazeEvents) :
        GazeEvents[k].ev.timestamp = now =>
            /\ GazeEvents[k].ev.event_type = "eye_gaze_left" => HeldLeft
            /\ GazeEvents[k].ev.event_type = "eye_gaze_right" => HeldRight

\* C31: the gaze cooldown is global: two consecutive gaze events of either
\* eye and direction are at least 1.2 s apart, so no frame emits two, and a
\* gaze event is emitted only after its non-CENTER direction was held for at
\* least 0.8 s immediately before it
C31_GazeCooldownAndHold ==
    /\ C31_GlobalCooldown
    /\ C31_HeldBefore

\* C38: the kind of a gaze event agrees with the held direction and with its
\* action: EYE_GAZE_LEFT is emitted only after a LEFT hold and carries the
\* left_gaze action previous_tab, EYE_GAZE_RIGHT only after a RIGHT hold with
\* the right_gaze action next_tab
C38_GazeKindMatchesDirection ==
    \A k \in 1..Len(GazeEvents) :
        LET e == GazeEvents[k].ev
        IN  /\ e.event_type = "eye_gaze_left" =>
                  /\ e.action = "previous_tab"
                  /\ e.details = "left_gaze"
                  /\ e.timestamp = now =>
                        \/ last_left_gaze = "LEFT" /\ now - left_since >= GazeHoldMs
                        \/ last_right_gaze = "LEFT" /\ now - right_since >= GazeHoldMs
            /\ e.event_type = "eye_gaze_right" =>
                  /\ e.action = "next_tab"
                  /\ e.details = "right_gaze"
                  /\ e.timestamp = now =>
                        \/ last_left_gaze = "RIGHT" /\ now - left_since >= GazeHoldMs
                        \/ last_right_gaze = "RIGHT" /\ now - right_since >= GazeHoldMs

\* the open-to-closed transition k has no other within 1.0 s before or after
IsolatedBlink(k) ==
    /\ now - closings[k] > BlinkResetMs
    /\ \A j \in 1..Len(closings) :
          j # k => \/ closings[j] - closings[k] > BlinkResetMs
                   \/ closings[k] - closings[j] > BlinkResetMs

\* C32: an isolated blink emits no event; blink_count is back at 0 once more
\* than 1.0 s has passed since the last blink, so that a blink that comes
\* more than 1.0 s after the one before it is counted as the first of a new
\* sequence
C32_IsolatedBlinkAndReset ==
    /\ \A k \in 1..Len(closings) :
          IsolatedBlink(k) =>
              \A j \in DoubleBlinks \cup TripleBlinks :
                  emitted[j].ev.timestamp # closings[k]
    /\ (closings # <<>> /\ now - closings[Len(closings)] > BlinkResetMs)
          => blink_count = 0
    /\ (/\ Len(closings) >= 2
        /\ closings[Len(closings)] = now
        /\ now - closings[Len(closings) - 1] > BlinkResetMs)
          => blink_count = 1

\* the open-to-closed transition at which event j was emitted
ClosingOf(j) ==
    CHOOSE k \in 1..Len(closings) : closings[k] = emitted[j].ev.timestamp

\* C39: a sequence of three blinks that triggers the triple-blink event also
\* triggers a double-blink event at its second blink: the double-blink event
\* was emitted at the blink before the one that emitted the triple-blink
\* event, and the third blink did not cancel it
C39_TripleImpliesDouble ==
    \A j \in TripleBlinks :
        /\ ClosingOf(j) >= 2
        /\ \E d \in DoubleBlinks :
              /\ d < j
              /\ emitted[d].ev.timestamp = closings[ClosingOf(j) - 1]

\* the frames on which process_frame emitted a GESTURE_PAUSE event
PauseFrames == {i \in 1..Len(gesture_log) : gesture_log[i].pause}

\* frame i and the frame before it are both classified pinky_up
PinkyStable(i) ==
    /\ i >= GestureFramesRequired
    /\ \A j \in (i - GestureFramesRequired + 1)..i :
          gesture_log[j].gesture = "pinky_up"

\* C33: a GESTURE_PAUSE event is emitted only on a frame where pinky_up is
\* stable, whether the controller is paused or not; two GESTURE_PAUSE events
\* are more than 0.8 s apart, so a held gesture does not toggle on every
\* frame
C33_PauseGestureCooldown ==
    /\ \A i \in PauseFrames : PinkyStable(i)
    /\ \A i, j \in PauseFrames :
          i < j => gesture_log[j].at - gesture_log[i].at > PauseCooldownMs
    /\ \A i \in 1..Len(gesture_log) :
          (/\ PinkyStable(i)
           /\ \A j \in PauseFrames :
                 j < i => gesture_log[i].at - gesture_log[j].at > PauseCooldownMs)
          => gesture_log[i].pause

(***************************************************************************)
(* EventBus.get_status, statement by statement, against emit_event, whose  *)
(* locked block is taken statement by statement as well.                   *)
(***************************************************************************)
statusFixed == <<now, listeners, action_callbacks, running,
                 bus_last_action_time, mapperVars, stats, handled, calls,
                 script, eyeVars, processor_alive, stack, hud_toggles,
                 stopVars, globalVars, raceVars, hudVars, configVars,
                 gestureVars, gazeFnVars, queryVars, toggleVars>>

\* variant of LockFree: the block is entered whoever holds the lock
LockIgnored(l) == TRUE

\* with self.lock: the block is entered when no thread holds the lock
LockFree(l) == l = None

\* list(x), x.copy(): a new object with the elements of x
NewObject(x) == [value |-> x, shared |-> FALSE]

NoSnapshot ==
    [system_paused |-> None, active_sources |-> None,
     last_event_times |-> None, queue_size |-> None]

\* emit_event: with self.lock
StatusRecLock(p) ==
    /\ pending[p] # <<>>
    /\ rec_pc[p] = "idle"
    /\ LockFree(lock)
    /\ lock' = p
    /\ rec_pc' = [rec_pc EXCEPT ![p] = "time"]
    /\ UNCHANGED <<queue, pending, system_paused, last_event_time,
                   active_sources, emitted, status_pc, snapshot, status_calls,
                   statusFixed>>

\* self.last_event_time[event.source] = event.timestamp
StatusRecTime(p) ==
    LET e == Head(pending[p])
    IN  /\ rec_pc[p] = "time"
        /\ last_event_time' =
              [s \in DOMAIN last_event_time \cup {e.source} |->
                  IF s = e.source THEN e.timestamp ELSE last_event_time[s]]
        /\ rec_pc' = [rec_pc EXCEPT ![p] = "source"]
        /\ UNCHANGED <<queue, pending, system_paused, active_sources, emitted,
                       lock, status_pc, snapshot, status_calls, statusFixed>>

\* self.active_sources.add(event.source), and the lock is released
StatusRecSource(p) ==
    LET e == Head(pending[p])
    IN  /\ rec_pc[p] = "source"
        /\ active_sources' = active_sources \cup {e.source}
        /\ pending' = [pending EXCEPT ![p] = <<>>]
        /\ lock' = None
        /\ rec_pc' = [rec_pc EXCEPT ![p] = "idle"]
        /\ UNCHANGED <<queue, system_paused, last_event_time, emitted,
                       status_pc, snapshot, status_calls, statusFixed>>

\* display_unified_hud calls self.event_bus.get_status()
StatusCall ==
    /\ status_pc \in {"idle", "returned", "mutated"}
    /\ status_calls < MaxStatusCalls
    /\ status_calls' = status_calls + 1
    /\ status_pc' = "acquire"
    /\ snapshot' = NoSnapshot
    /\ UNCHANGED <<queue, pending, system_paused, last_event_time,
                   active_sources, emitted, lock, rec_pc, statusFixed>>

\* with self.lock
StatusAcquire ==
    /\ status_pc = "acquire"
    /\ LockFree(lock)
    /\ lock' = IF lock = None THEN "hud" ELSE lock
    /\ status_pc' = "system_paused"
    /\ UNCHANGED <<queue, pending, system_paused, last_event_time,
                   active_sources, emitted, rec_pc, snapshot, status_calls,
                   statusFixed>>

\* the four entries of the dict, evaluated in the order they are written
StatusRead ==
    /\ status_pc \in {"system_paused", "active_sources", "last_event_times",
                      "queue_size"}
    /\ snapshot' =
          [snapshot EXCEPT ![status_pc] =
              CASE status_pc = "system_paused" -> system_paused
                [] status_pc = "active_sources" -> NewObject(active_sources)
                [] status_pc = "last_event_times" -> NewObject(last_event_time)
                [] status_pc = "queue_size" -> Len(queue)]
    /\ status_pc' =
          CASE status_pc = "system_paused" -> "active_sources"
            [] status_pc = "active_sources" -> "last_event_times"
            [] status_pc = "last_event_times" -> "queue_size"
            [] status_pc = "queue_size" -> "built"
    /\ UNCHANGED <<queue, pending, system_paused, last_event_time,
                   active_sources, emitted, lock, rec_pc, status_calls,
                   statusFixed>>

\* the lock is released and the dict returned
StatusReturn ==
    /\ status_pc = "built"
    /\ lock' = IF lock = "hud" THEN None ELSE lock
    /\ status_pc' = "returned"
    /\ UNCHANGED <<queue, pending, system_paused, last_event_time,
                   active_sources, emitted, rec_pc, snapshot, status_calls,
                   statusFixed>>

\* the caller adds an element to each of the two collections it was given;
\* a collection that is the bus's own object changes in the bus too
StatusMutate ==
    LET a == snapshot.active_sources
        l == snapshot.last_event_times
        l1 == [s \in DOMAIN l.value \cup {"caller"} |->
                  IF s = "caller" THEN now ELSE l.value[s]]
    IN  /\ status_pc = "returned"
        /\ status_pc' = "mutated"
        /\ snapshot' = [snapshot EXCEPT
              !.active_sources = [a EXCEPT !.value = @ \cup {"caller"}],
              !.last_event_times = [l EXCEPT !.value = l1]]
        /\ active_sources' = IF a.shared THEN active_sources \cup {"caller"}
                             ELSE active_sources
        /\ last_event_time' = IF l.shared THEN l1 ELSE last_event_time
        /\ UNCHANGED <<queue, pending, system_paused, emitted, lock, rec_pc,
                       status_calls, statusFixed>>

StatusKinds == {"gesture_pinch", "voice_copy", "gesture_pause"}

NextStatus ==
    \/ \E p \in Producers, k \in StatusKinds :
          Len(emitted) < MaxStatusEmits /\ EmitPut(p, k)
    \/ \E p \in Producers : StatusRecLock(p)
    \/ \E p \in Producers : StatusRecTime(p)
    \/ \E p \in Producers : StatusRecSource(p)
    \/ LockFree(lock) /\ ProcessEvents(FALSE, FALSE, {})
    \/ StatusCall
    \/ StatusAcquire
    \/ StatusRead
    \/ StatusReturn
    \/ StatusMutate

SpecStatus == Init /\ [][NextStatus]_vars

\* at the step that completes the dict the lock is held and every entry is
\* what the bus holds at that instant
C34_SnapshotIsCurrent ==
    (status_pc = "queue_size" /\ status_pc' = "built") =>
        /\ lock = "hud"
        /\ snapshot'.system_paused = system_paused
        /\ snapshot'.active_sources.value = active_sources
        /\ snapshot'.last_event_times.value = last_event_time
        /\ snapshot'.queue_size = Len(queue)

\* mutating the returned collections leaves the bus as it is
C34_MutationStaysOutside ==
    (status_pc = "returned" /\ status_pc' = "mutated")
        => UNCHANGED <<active_sources, last_event_time, system_paused, queue>>

\* C34: get_status returns a snapshot taken atomically under the bus lock,
\* its entries being those of the bus at one instant, and made of copies:
\* mutating the returned collections does not change the bus
C34_StatusSnapshot ==
    /\ [][C34_SnapshotIsCurrent]_vars
    /\ [][C34_MutationStaysOutside]_vars

\* a snapshot that holds a source was mutated by its caller while a producer
\* that has put an event waits for the bookkeeping
C34_Witness ==
    /\ status_pc = "mutated"
    /\ "caller" \in snapshot.active_sources.value
    /\ snapshot.active_sources.value \cap active_sources # {}
    /\ \E p \in Producers : pending[p] # <<>>

\* the forwarded action of a handled event succeeded: a callback was
\* registered, the dispatcher performed the action and the callback returned
ForwardSucceeded(h) == h.called /\ h.executed /\ ~h.callback_raised

\* C35: EventBus.last_action_time is set only when the forwarded action
\* succeeded; it is unchanged after a callback that raised, after a dispatcher
\* call blocked by the cooldown or failed on an unknown action, and when no
\* callback is registered for the action
C35_LastActionOnlyOnSuccess ==
    \A i \in 1..Len(handled) :
        ~ForwardSucceeded(handled[i])
            => handled[i].bus_last_after = handled[i].bus_last_before

(***************************************************************************)
(* SpecQuery: get_action_history(limit) on the histories a few executed    *)
(* actions build, for every limit from 0 up.                               *)
(***************************************************************************)
InitQuery ==
    /\ BusInit
    /\ GlobalInit(1)
    /\ allow_eye_gesture = ALLOW_EYE_GESTURE
    /\ GazeFnIdle
    /\ handlers = {}
    /\ script = <<>>
    /\ query_limit \in 0..MaxQueryLimit
    /\ query_result = <<>>

\* mapper.get_action_history(limit)
QueryCall ==
    /\ query_result' =
          <<[history |-> action_history,
             value |-> GetActionHistory(action_history, query_limit)]>>
    /\ UNCHANGED <<now, busVars, mapperVars, stats, emitted, handled, calls,
                   script, eyeVars, processor_alive, lockVars, stopVars,
                   globalVars, raceVars, hudVars, configVars, gestureVars,
                   gazeFnVars, statusVars, toggleVars, query_limit>>

NextQuery ==
    \/ ~CheckCooldown(now, last_action_time) /\ Tick
    \/ /\ CheckCooldown(now, last_action_time)
       /\ Len(Executed) < MaxQueryRuns
       /\ MapperCall(HistoryCallName, "test", "run", FALSE, FALSE)
    \/ QueryCall

SpecQuery == InitQuery /\ [][NextQuery]_vars

\* the n most recent records of a history, in execution order
MostRecent(h, n) ==
    IF n >= Len(h) THEN h ELSE SubSeq(h, Len(h) - n + 1, Len(h))

\* C36: for every limit >= 0 get_action_history(limit) returns at most limit
\* records, the min(limit, len(history)) most recent ones in execution
\* order; get_action_history(0) returns an empty list
C36_HistoryLimit ==
    query_result # <<>> =>
        /\ Len(query_result[1].value) <= query_limit
        /\ query_result[1].value =
              MostRecent(query_result[1].history, query_limit)
        /\ query_limit = 0 => query_result[1].value = <<>>

(***************************************************************************)
(* SpecPriority: the bus with events of every kind emitted with every      *)
(* priority, one listener and a registered action callback.                *)
(***************************************************************************)
PriorityKinds == {"voice_copy", "gesture_pinch", "gesture_pause"}

\* the highest priority a module passes to emit_event, and the default of
\* its parameter
Priorities == {Kinds[k].priority : k \in {"voice_copy", "test_event"}}

NextPriority ==
    \/ PolicyTick
    \/ NumListeners = 0 /\ emitted = <<>> /\ RegisterListener("voice_command")
    \/ emitted = <<>> /\ "copy" \notin action_callbacks /\ RegisterActionCallback("copy")
    \/ \E p \in Producers, k \in PriorityKinds, priority \in Priorities :
          Len(emitted) < MaxPriorityEmits /\ EmitWithPriority(p, k, priority)
    \/ ProcessEvents(FALSE, FALSE, {})

SpecPriority == Init /\ [][NextPriority]_vars

\* the queue with the priority fields replaced by pr
Reprioritized(q, pr) == [i \in 1..Len(q) |-> [q[i] EXCEPT !.priority = pr[i]]]

\* the record of the event that this step handles
HandledNow == handled'[Len(handled')]

\* this step handles the head of the queue exactly as it would handle the
\* head of the queue q2, whose events differ in their priority fields only
SameHandling(q2) ==
    LET e2 == Dequeue(q2).event
        passed == Outcome(e2, now) = "processed"
        called == passed /\ e2.action # None /\ Callback(e2.action) # None
    IN  /\ HandledNow.ev.id = e2.id
        /\ HandledNow.outcome = Outcome(e2, now)
        /\ HandledNow.notified =
              (IF passed THEN NotifyListeners(e2.event_type, {})
               ELSE IF Outcome(e2, now) = "toggled"
                    THEN NotifyListeners(PauseEventType(~system_paused), {})
               ELSE <<>>)
        /\ HandledNow.called = called
        /\ (called /\ UnifiedAction(e2.action, e2) # None) =>
              /\ Len(calls') = Len(calls) + 1
              /\ calls'[Len(calls')].name = UnifiedAction(e2.action, e2)
              /\ calls'[Len(calls')].source = e2.source
              /\ calls'[Len(calls')].details = DetailsOf(e2)
        /\ ~(called /\ UnifiedAction(e2.action, e2) # None) => calls' = calls
        /\ [i \in 1..Len(queue') |-> queue'[i].id]
              = [i \in 1..Len(Dequeue(q2).rest) |-> Dequeue(q2).rest[i].id]

C40_HandlingStep ==
    Len(handled') = Len(handled) + 1 =>
        \A pr \in [1..Len(queue) -> Priorities] :
            SameHandling(Reprioritized(queue, pr))

====
